---- MODULE Spec2Model ----
(***************************************************************************)
(* Model of the industrial marking gateway:                                *)
(*   network_services/tcp_server.py   MarkingSystemTCPServer               *)
(*   hardware_interface/plc_interface.py   PLCInterface                    *)
(*   main.py   IndustrialMarkingSystem._integrate_plc_with_server          *)
(*                                                                         *)
(* One reader thread per client connection (start_server spawns            *)
(* _handle_client).  A reader handles one complete line at a time.  The    *)
(* built-in handlers run without a suspension point and are one action     *)
(* each; the hardware-backed marking handler runs                          *)
(* execute_marking_sequence, whose fieldbus calls are cut where a call is  *)
(* entered and where it returns.  No lock exists anywhere in the source,   *)
(* so the steps of different threads interleave freely.                    *)
(*                                                                         *)
(* _build_modbus_request hands struct.pack seven values for a format of    *)
(* eight codes: every fieldbus call on a connected link ends in the        *)
(* caller's except clause before connection.send.  The code behind that    *)
(* point (send, recv, the parsers) is modelled as written, in the step a   *)
(* call returns in, and is never reached; the waits of the sequence        *)
(* (time.sleep, the deadline) lie behind a successful read.                *)
(***************************************************************************)
EXTENDS Integers, Sequences, FiniteSets, TLC

VARIABLES
    clients,           \* MarkingSystemTCPServer.clients: the tracked client ids
    message_handlers,  \* MarkingSystemTCPServer.message_handlers: type -> handler
    system_status,     \* MarkingSystemTCPServer.system_status (its counters)
    is_connected,      \* PLCInterface.is_connected
    plc,               \* the device behind the link: its discrete inputs
    pc,                \* per reader thread: where it is
    req,               \* per reader: the line it is handling / handled last
    out,               \* per reader: responses written to its socket for req
    run,               \* per reader: the MarkingSequenceRun of its handler call
    applied,           \* the last request built: its arguments and the result
    codec,             \* a message, the line it was encoded to, what the line decoded to
    socks,             \* the client sockets accepted and not closed
    monitor,           \* the _monitor_system thread: its broadcast round
    stopper,           \* the thread running stop_server
    errors,            \* exceptions that left a call: [thread, error]
    swap,              \* register_handler calls and the readers' local `handler`
    net,               \* the clock, the connections alive and their map entries
    stream,            \* per connection: what the peer sent and the reader did with it
    link,              \* the PLCInterface object: its transport and its last call
    wire,              \* per connection: the bytes on the wire and the reader's framing of them
    tally              \* the marking handler's counter update, statement by statement

\* the server, the link and the reader threads
coreVars == <<clients, message_handlers, system_status, is_connected, plc,
              pc, req, out, run>>

\* state of the specifications of single concerns (further down)
auxVars == <<applied, codec, socks, monitor, stopper, errors, swap, net, stream, link, wire, tally>>

vars == <<coreVars, auxVars>>

-----------------------------------------------------------------------------
(* Bounds and program constants *)

\* cap of the marks_completed counter (unbounded in the code)
MaxMarks == 2

\* plc_interface.py:278  timeout = time.time() + 10.0   (seconds)
MARKING_TIMEOUT == 10

\* the connections a run of the server accepts (one reader thread each)
Clients == {"c1", "c2"}

RequestIds == {"req1", "req2"}

\* Python's None, True and False where one variable can hold any of them
None == "None"
True == "True"
False == "False"

-----------------------------------------------------------------------------
(* I/O point registry: PLCInterface.__init__ *)

discrete_inputs == {0, 1, 2, 3}
discrete_outputs == {0, 1, 2, 3}
analog_inputs == {0, 1}

PRODUCT_PRESENT == 0
SYSTEM_READY == 1
MARKING_COMPLETE == 3
MARKING_START == 0
STATUS_LED == 1
ERROR_INDICATOR == 2
CYCLE_COMPLETE == 3

-----------------------------------------------------------------------------
(* Fieldbus frames and responses *)

READ_DISCRETE_INPUTS == 2
READ_INPUT_REGISTERS == 4
WRITE_SINGLE_COIL == 5
COIL_ON == 65280
COIL_OFF == 0
DEFAULT_UNIT_ID == 1

\* The format '>HHHBBBHH' of line 190: the byte width of each of its codes
\* (H two bytes, B one byte).
PACK_FORMAT == <<2, 2, 2, 1, 1, 1, 2, 2>>

\* struct.error, raised by struct.pack
StructError == [error |-> "struct.error", fields |-> <<>>, size |-> 0]

RECURSIVE SumOf(_)
SumOf(widths) == IF widths = <<>> THEN 0 ELSE Head(widths) + SumOf(Tail(widths))

\* struct.pack(format, *values): one value for each code of the format, each
\* within the range of its code, or struct.error
StructPack(format, values) ==
    IF Len(values) # Len(format) THEN StructError
    ELSE IF \E i \in 1..Len(values) : values[i] \notin 0..(256^format[i] - 1)
    THEN StructError
    ELSE [error |-> "", fields |-> values, size |-> SumOf(format)]

\* PLCInterface._build_modbus_request: transaction id 1, protocol id 0,
\* length 6, the unit id, the function code, the address and the value
BuildModbusRequest(function_code, address, value) ==
    StructPack(PACK_FORMAT,
               <<1, 0, 6, DEFAULT_UNIT_ID, function_code, address, value>>)

\* write_discrete_output: coil_value = 0xFF00 if value else 0x0000
CoilValue(value) == IF value THEN COIL_ON ELSE COIL_OFF

\* What recv(1024) can give: an exception (timeout, reset) or some bytes, of
\* which the parsers read only the length and byte 9.
RecvError == [err |-> TRUE, len |-> 0, b9 |-> 0]
Responses ==
    {RecvError} \cup [err : {FALSE}, len : {0, 8, 9, 10}, b9 : {0, 1, 2}]

\* PLCInterface._parse_discrete_response, as called by read_discrete_input:
\* shorter than 9 bytes -> None; exactly 9 bytes -> response[9] raises
\* IndexError, which read_discrete_input catches -> None.
ParseDiscreteResponse(response) ==
    IF response.len < 9 THEN None
    ELSE IF response.len < 10 THEN None
    ELSE IF (response.b9 % 2) = 1 THEN True ELSE False

\* read_discrete_input's value for what recv gave
ReadDiscreteResult(response) ==
    IF response.err THEN None ELSE ParseDiscreteResponse(response)

\* PLCInterface._verify_write_response, as called by write_discrete_output
VerifyWriteResponse(response) ==
    IF response.err THEN FALSE ELSE response.len > 0

\* a slip in lines 263/269: `if x is False` lets a failed read (None) pass
TruthyNotFalse(v) == v # False
\* Python truthiness of an Optional[bool]: `if not x`
Truthy(v) == v = True

-----------------------------------------------------------------------------
(* Lines a client can send.  json.loads accepts a line or not; what it     *)
(* gives is an object with some keys, or another JSON value.               *)

Required == {"message_id", "timestamp", "message_type", "payload"}
\* the fields of the NetworkMessage dataclass
MessageFields == Required \cup {"client_id"}

\* payload values: a JSON object (dict) or some other JSON value (here a string)
\*   product_data: ABSENT (no such key), NONDICT (a string), NO_SERIAL (a dict
\*   without serial_number) or the serial number of a dict that has one
\*   command: ABSENT or the command text
DictPayload(product_data, command) ==
    [t |-> "dict", product_data |-> product_data, command |-> command]
EmptyPayload == DictPayload("ABSENT", "ABSENT")
StrPayload == [t |-> "str", product_data |-> "ABSENT", command |-> "ABSENT"]

TextLine == [form |-> "text", keys |-> {}, message_id |-> "", message_type |-> "",
             payload |-> EmptyPayload]
ArrayLine == [form |-> "array", keys |-> {}, message_id |-> "", message_type |-> "",
              payload |-> EmptyPayload]
Obj(keys, message_id, message_type, payload) ==
    [form |-> "object", keys |-> keys, message_id |-> message_id,
     message_type |-> message_type, payload |-> payload]
NoLine == [form |-> "none", keys |-> {}, message_id |-> "", message_type |-> "",
           payload |-> EmptyPayload]

Lines ==
    {TextLine, ArrayLine}
    \cup {Obj(Required \ {k}, "req1", "heartbeat", EmptyPayload) : k \in Required}
    \cup {Obj(Required \cup {"extra"}, "req1", "heartbeat", EmptyPayload)}
    \cup {Obj(MessageFields, "req2", "heartbeat", EmptyPayload)}
    \cup {Obj(Required, r, t, EmptyPayload) :
              r \in RequestIds,
              t \in {"heartbeat", "status_request", "configuration_update", "bogus_type"}}
    \cup {Obj(Required, "req1", "configuration_update", StrPayload)}
    \cup {Obj(Required, "req1", "system_command", DictPayload("ABSENT", c)) :
              c \in {"reset_statistics", "system_test", "ABSENT"}}
    \cup {Obj(Required, "req2", "system_command", StrPayload)}
    \cup {Obj(Required, "req1", "marking_request", DictPayload("SN123", "ABSENT")),
          Obj(Required, "req2", "marking_request", EmptyPayload),
          Obj(Required, "req1", "marking_request", StrPayload)}

\* _process_message: json.loads(message_data) succeeds
JsonLoads(line) == line.form # "text"

\* _process_message: NetworkMessage(**message_dict) succeeds: a mapping whose
\* keys are fields of the dataclass and include those without a default
MessageBuilds(line) ==
    /\ line.form = "object"
    /\ Required \subseteq line.keys
    /\ line.keys \subseteq MessageFields

\* the envelope parses into a NetworkMessage
Parses(line) == JsonLoads(line) /\ MessageBuilds(line)

-----------------------------------------------------------------------------
(* Messages the server writes, and the handlers of tcp_server.py.  A       *)
(* handler call gives [raised, resp, status]: whether an exception left    *)
(* the handler, the message it returned (a sequence of at most one) and    *)
(* the system_status it leaves.  Timestamps are left out.                  *)

Msg(message_id, message_type, payload) ==
    [message_id |-> message_id, message_type |-> message_type, payload |-> payload]

\* str(e) of the AttributeError of "<a str>".get(...)
STR_HAS_NO_GET == "'str' object has no attribute 'get'"
\* str(e) of the AttributeError of main.py:161, tcp_server._create_response
NO_CREATE_RESPONSE ==
    "'MarkingSystemTCPServer' object has no attribute '_create_response'"

\* a slip in line 168: the text does not name the type
UnknownTypeTextBare(message_type) == "Unknown message type"
\* _process_message line 168: f"Unknown message type: {message.message_type}"
UnknownTypeText(message_type) == "Unknown message type: " \o message_type

\* a slip in line 292: the request id is left out of the error id
CreateErrorResponseNoId(request_id, error_message) ==
    Msg("error_", "error_response", [error |-> error_message])
\* MarkingSystemTCPServer._create_error_response
CreateErrorResponse(request_id, error_message) ==
    Msg("error_" \o request_id, "error_response", [error |-> error_message])

\* the response_<id> messages the built-in handlers build inline
SuccessResponse(request_id, message_type, payload) ==
    Msg("response_" \o request_id, message_type, payload)

Returned(resp, status) == [raised |-> FALSE, resp |-> <<resp>>, status |-> status]
Raised(status) == [raised |-> TRUE, resp |-> <<>>, status |-> status]

\* product_data.get("serial_number") is truthy
HasSerial(product_data) == product_data \notin {"ABSENT", "NO_SERIAL", "NONDICT"}

\* MarkingSystemTCPServer._handle_status_request.  system_status has no
\* start_time, so server_uptime is time.time() - time.time()
HandleStatusRequest(m, status, tracked) ==
    Returned(SuccessResponse(m.message_id, "status_response",
                 [system_status |-> status, client_count |-> Cardinality(tracked),
                  server_uptime |-> 0]),
             status)

\* MarkingSystemTCPServer._handle_marking_request (the simulated marking)
HandleMarkingRequest(m, status, tracked) ==
    IF m.payload.t # "dict" \/ m.payload.product_data = "NONDICT"
    THEN Returned(CreateErrorResponse(m.message_id, STR_HAS_NO_GET), status)
    ELSE IF ~HasSerial(m.payload.product_data)
    THEN Returned(CreateErrorResponse(m.message_id,
                      "Missing required field: serial_number"), status)
    ELSE Returned(SuccessResponse(m.message_id, "marking_response",
                      [success |-> TRUE, product_data |-> m.payload.product_data]),
                  [status EXCEPT !.marks_completed = @ + 1])

\* MarkingSystemTCPServer._handle_configuration_update
HandleConfigurationUpdate(m, status, tracked) ==
    IF m.payload.t # "dict"
    THEN Returned(CreateErrorResponse(m.message_id, STR_HAS_NO_GET), status)
    ELSE Returned(SuccessResponse(m.message_id, "configuration_response",
                      [success |-> TRUE, message |-> "Configuration updated"]),
                  status)

\* a slip in lines 261-263: reset_statistics clears error_count only
HandleSystemCommandKeepsMarks(m, status, tracked) ==
    IF m.payload.t # "dict"
    THEN Raised(status)
    ELSE Returned(SuccessResponse(m.message_id, "command_response",
                      [success |-> TRUE, command |-> m.payload.command]),
                  IF m.payload.command = "reset_statistics"
                  THEN [status EXCEPT !.error_count = 0]
                  ELSE status)

\* MarkingSystemTCPServer._handle_system_command (no try block: a payload
\* that is no dict makes payload.get raise out of the handler)
HandleSystemCommand(m, status, tracked) ==
    IF m.payload.t # "dict"
    THEN Raised(status)
    ELSE Returned(SuccessResponse(m.message_id, "command_response",
                      [success |-> TRUE, command |-> m.payload.command]),
                  IF m.payload.command = "reset_statistics"
                  THEN [status EXCEPT !.marks_completed = 0, !.error_count = 0]
                  ELSE status)

\* a slip in lines 276-285: the heartbeat is counted as a completed mark
HandleHeartbeatCounts(m, status, tracked) ==
    Returned(SuccessResponse(m.message_id, "heartbeat_response",
                 [server_time |-> "now"]),
             [status EXCEPT !.marks_completed = @ + 1])
\* MarkingSystemTCPServer._handle_heartbeat
HandleHeartbeat(m, status, tracked) ==
    Returned(SuccessResponse(m.message_id, "heartbeat_response",
                 [server_time |-> "now"]), status)

\* the handler functions a message type can be bound to
SIM_MARKING == "_handle_marking_request"
PLC_MARKING == "plc_marking_handler"

\* MarkingSystemTCPServer._register_default_handlers
DefaultHandlers ==
    [t \in {"status_request", "marking_request", "configuration_update",
            "system_command", "heartbeat"} |->
        CASE t = "status_request" -> "_handle_status_request"
          [] t = "marking_request" -> SIM_MARKING
          [] t = "configuration_update" -> "_handle_configuration_update"
          [] t = "system_command" -> "_handle_system_command"
          [] t = "heartbeat" -> "_handle_heartbeat"]

\* a slip in line 66: setdefault, a type keeps the handler it has
RegisterHandlerKeepsFirst(handlers, message_type, handler) ==
    [t \in DOMAIN handlers \cup {message_type} |->
        IF t \in DOMAIN handlers THEN handlers[t] ELSE handler]
\* MarkingSystemTCPServer.register_handler
RegisterHandler(handlers, message_type, handler) ==
    [t \in DOMAIN handlers \cup {message_type} |->
        IF t = message_type THEN handler ELSE handlers[t]]

\* _process_message: response = handler(message), for the handlers that do
\* not block
Invoke(handler, m, status, tracked) ==
    CASE handler = "_handle_status_request" -> HandleStatusRequest(m, status, tracked)
      [] handler = SIM_MARKING -> HandleMarkingRequest(m, status, tracked)
      [] handler = "_handle_configuration_update" ->
             HandleConfigurationUpdate(m, status, tracked)
      [] handler = "_handle_system_command" -> HandleSystemCommand(m, status, tracked)
      [] handler = "_handle_heartbeat" -> HandleHeartbeat(m, status, tracked)

\* main.py plc_marking_handler after execute_marking_sequence returned:
\* on success tcp_server._create_response does not exist, the AttributeError
\* is caught by the handler's own except (before get_system_status is called)
PlcMarkingResponse(m, success) ==
    IF success
    THEN CreateErrorResponse(m.message_id, "Hardware error: " \o NO_CREATE_RESPONSE)
    ELSE CreateErrorResponse(m.message_id, "PLC marking sequence failed")

-----------------------------------------------------------------------------
(* execute_marking_sequence.  The position of a run is the fieldbus call   *)
(* it makes next or is inside of, or the sleep it is in:                   *)
(*   pp      read_discrete_input(0)            line 262                    *)
(*   sr      read_discrete_input(1)            line 268                    *)
(*   start   write_discrete_output(0, True)    line 274                    *)
(*   led     write_discrete_output(1, True)    line 275                    *)
(*   loop    the while test of line 279, then read_discrete_input(3) of    *)
(*           line 280 or, in the else branch, write_discrete_output(2,     *)
(*           True) of line 286                                             *)
(*   sleep   time.sleep(0.1)                   line 283                    *)
(*   cyc_on  write_discrete_output(3, True)    line 290                    *)
(*   hold    time.sleep(0.5)                   line 291                    *)
(*   cyc_off write_discrete_output(3, False)   line 292                    *)

OpPcs == {"pp", "sr", "start", "led", "loop", "cyc_on", "cyc_off"}
SeqPcs == OpPcs \cup {"sleep", "hold"}

ReadOp(address) == [kind |-> "read", address |-> address, value |-> FALSE]
WriteOp(address, value) == [kind |-> "write", address |-> address, value |-> value]
NoCall == [kind |-> "none", address |-> 0, value |-> FALSE]

\* the locals of one call of execute_marking_sequence, and what it did:
\* writes are its calls of write_discrete_output, call is the fieldbus call
\* it is inside of, frames whether a request of it reached connection.send,
\* rem the seconds left to its deadline
NoRun == [product_present |-> "unread", system_ready |-> "unread",
          marking_complete |-> "unread", rem |-> 0, writes |-> <<>>,
          call |-> NoCall, frames |-> FALSE, result |-> "none"]

\* line 279: while time.time() < timeout
LoopCond(rem) == rem > 0

\* line 286, the while loop's else branch: write_discrete_output(2, True)
TimeoutOp == WriteOp(ERROR_INDICATOR, TRUE)

\* the fieldbus call a run makes at position p
OpAt(p, r) ==
    CASE p = "pp" -> ReadOp(PRODUCT_PRESENT)
      [] p = "sr" -> ReadOp(SYSTEM_READY)
      [] p = "start" -> WriteOp(MARKING_START, TRUE)
      [] p = "led" -> WriteOp(STATUS_LED, TRUE)
      [] p = "loop" -> IF LoopCond(r.rem) THEN ReadOp(MARKING_COMPLETE)
                       ELSE TimeoutOp
      [] p = "cyc_on" -> WriteOp(CYCLE_COMPLETE, TRUE)
      [] p = "cyc_off" -> WriteOp(CYCLE_COMPLETE, FALSE)

\* the request read_discrete_input / write_discrete_output builds for a call
\* (lines 114-115, 135-137)
FrameOf(op) ==
    IF op.kind = "read"
    THEN BuildModbusRequest(READ_DISCRETE_INPUTS, op.address, 1)
    ELSE BuildModbusRequest(WRITE_SINGLE_COIL, op.address, CoilValue(op.value))

\* the device answers a read of one of its inputs with that input's state,
\* whenever its answer is long enough to carry it
Answers(op, response) ==
    (op.kind = "read" /\ ~response.err /\ response.len >= 10)
        => ((response.b9 % 2) = 1) = plc[op.address]

\* what the call returns when send and recv were reached and recv gave response
Exchanged(op, response) ==
    IF op.kind = "read" THEN ReadDiscreteResult(response)
    ELSE IF VerifyWriteResponse(response) THEN True ELSE False

Return(r, result) == [pc |-> "ret", run |-> [r EXCEPT !.result = result]]
Goto(p, r) == [pc |-> p, run |-> r]

\* a slip in lines 262-265: the sequence waits for the product, it reads
\* input 0 again until the input is on
AfterAwaitsProduct(p, r, op, v) ==
    CASE p = "pp" ->
             IF Truthy(v) THEN Goto("sr", [r EXCEPT !.product_present = v])
             ELSE Goto("pp", r)
      [] p = "sr" ->
             IF Truthy(v) THEN Goto("start", [r EXCEPT !.system_ready = v])
             ELSE Return([r EXCEPT !.system_ready = v], False)
      [] p = "start" -> Goto("led", r)
      [] p = "led" -> Goto("loop", [r EXCEPT !.rem = MARKING_TIMEOUT])
      [] p = "loop" ->
             IF op.kind = "read"
             THEN IF Truthy(v) THEN Goto("cyc_on", [r EXCEPT !.marking_complete = v])
                  ELSE Goto("sleep", r)
             ELSE Return(r, False)
      [] p = "cyc_on" -> Goto("hold", r)
      [] p = "cyc_off" -> Return(r, True)
\* Where the sequence goes when the call made at p came back with v (a read's
\* value; a write's result is dropped by the sequence).  marking_complete is
\* recorded when it ends the loop; a falsy value is dead once tested (the
\* next poll overwrites it).
After(p, r, op, v) ==
    CASE p = "pp" ->
             IF Truthy(v) THEN Goto("sr", [r EXCEPT !.product_present = v])
             ELSE Return([r EXCEPT !.product_present = v], False)
      [] p = "sr" ->
             IF Truthy(v) THEN Goto("start", [r EXCEPT !.system_ready = v])
             ELSE Return([r EXCEPT !.system_ready = v], False)
      [] p = "start" -> Goto("led", r)
      [] p = "led" -> Goto("loop", [r EXCEPT !.rem = MARKING_TIMEOUT])
      [] p = "loop" ->
             IF op.kind = "read"
             THEN IF Truthy(v) THEN Goto("cyc_on", [r EXCEPT !.marking_complete = v])
                  ELSE Goto("sleep", r)
             ELSE Return(r, False)
      [] p = "cyc_on" -> Goto("hold", r)
      [] p = "cyc_off" -> Return(r, True)

-----------------------------------------------------------------------------
(* State *)

\* what the device's inputs can be while the server runs: they come on in
\* the order of a marking cycle
Devices ==
    {[i \in {PRODUCT_PRESENT, SYSTEM_READY, MARKING_COMPLETE} |-> i \in on] :
        on \in {{}, {PRODUCT_PRESENT}, {PRODUCT_PRESENT, SYSTEM_READY},
                {PRODUCT_PRESENT, SYSTEM_READY, MARKING_COMPLETE}}}

InitCore ==
    /\ clients = {}
    /\ message_handlers \in
           {DefaultHandlers,
            RegisterHandler(DefaultHandlers, "marking_request", PLC_MARKING)}
    /\ system_status = [marks_completed |-> 0, error_count |-> 0]
    /\ is_connected \in BOOLEAN
    /\ plc \in Devices
    /\ pc = [c \in Clients |-> "closed"]
    /\ req = [c \in Clients |-> NoLine]
    /\ out = [c \in Clients |-> <<>>]
    /\ run = [c \in Clients |-> NoRun]

\* no request has been built
NoApply == [function_code |-> 0, address |-> 0, value |-> 0, request |-> <<>>]

\* no message has been encoded
NoCodec == [message |-> <<>>, line |-> <<>>, receiver |-> <<>>, decoded |-> <<>>]

\* the monitor thread between two rounds.  In a round: size is the length of
\* the dict when the iterator was made, seen the entries iterated over, sent
\* those whose send returned, failed those whose send raised, todo the
\* disconnected_clients still to clean up; start are the connections tracked
\* when the round began and stable those of them tracked ever since.
\* outcome is how the last round ended.  unslept says the round under way
\* began without the time.sleep(30) of line 363 since the round before: an
\* exception that leaves broadcast_message skips the sleep, which stands
\* inside the try block, and the while loop starts over from line 365.
IdleMonitor ==
    [pc |-> "sleep", size |-> 0, start |-> {}, stable |-> {}, seen |-> {},
     sent |-> {}, failed |-> {}, todo |-> <<>>, outcome |-> "none",
     unslept |-> FALSE]

\* stop_server not called.  Later pc is its position: "timer" (the Timer of
\* the shutdown command runs), "loop", "del", then "done" (it returned) or
\* "raised" (an exception left it).  late says the accept loop has taken a
\* connection since is_running was cleared, and so has left its while loop.
IdleStopper == [pc |-> "idle", todo |-> <<>>, late |-> FALSE]

\* no dispatch under way.  registered is the handler last given to
\* register_handler for marking_request; for each reader, handler is its
\* local variable of line 159, expected what registered was when the reader
\* executed line 159, inflight whether register_handler ran since then.
NoSwap ==
    [registered |-> message_handlers["marking_request"],
     handler |-> [c \in Clients |-> "unset"],
     expected |-> [c \in Clients |-> "unset"],
     inflight |-> [c \in Clients |-> FALSE]]

\* the server's clock at second 0 and nothing accepted.  live are the
\* connections whose reader runs, each with its peer address and the
\* client_id its reader was given; entries is self.clients, from client_id
\* to the "address" of the entry.
NoNet == [now |-> 0, live |-> {}, entries |-> <<>>]

\* a connection whose peer has sent nothing: sent counts the pieces the
\* peer has sent, buffer is the reader's local of line 121, processed the
\* lines handed to _process_message and written the request numbers of the
\* responses sent, both in the order they happened
NoStream == [sent |-> 0, buffer |-> <<>>, processed |-> <<>>, written |-> <<>>]

\* a connection whose peer has sent no byte: sent are the bytes the peer has
\* written, received how many of them recv has returned, buffer the reader's
\* local of line 121 (characters), dispatched the lines handed to
\* _process_message, raised the exception that ended the reader ("" for none)
NoWire == [sent |-> <<>>, received |-> 0, buffer |-> <<>>, dispatched |-> <<>>,
           raised |-> ""]

\* no marking request under way: loaded[c] is the value reader c has read
\* from system_status["marks_completed"] and not yet stored back (-1 for
\* none), succeeded the marking requests that ended with success since the
\* counters were last reset
NoTally == [loaded |-> [c \in Clients |-> -1], succeeded |-> 0]

\* the transports a configuration can name (PLCConnectionType), and the one
\* of SYSTEM_CONFIG in main.py
Protocols == {"modbus_tcp", "modbus_rtu", "ethernet_ip"}
MAIN_PROTOCOL == "modbus_tcp"

\* no method of the interface has been called
NoCallYet ==
    [op |-> "none", connected |-> FALSE, answers |-> <<>>, result |-> None,
     raised |-> "", sent |-> FALSE]

\* PLCInterface.__init__: connection is None ("None"), later a socket that
\* is "open" or "closed".  released says disconnect() has returned and
\* connect() was not called since; call is the last call of a method: its
\* name, is_connected when it began, what recv had to give, what it
\* returned, the exception that left it, whether a request was sent.
NoLink(protocol) ==
    [protocol |-> protocol, connection |-> "None", released |-> FALSE,
     call |-> NoCallYet]

\* the state of the single concerns other than the link
InitRest ==
    /\ applied = NoApply
    /\ codec = NoCodec
    /\ socks = {}
    /\ monitor = IdleMonitor
    /\ stopper = IdleStopper
    /\ errors = {}
    /\ swap = NoSwap
    /\ net = NoNet
    /\ stream = [c \in Clients |-> NoStream]
    /\ wire = [c \in Clients |-> NoWire]
    /\ tally = NoTally

InitAux ==
    /\ InitRest
    /\ link = NoLink(MAIN_PROTOCOL)


Init == InitCore /\ InitAux

\* the server at rest, for the specifications of single concerns: default
\* handlers, no link, the device's inputs off
InitAlone ==
    /\ Init
    /\ message_handlers = DefaultHandlers
    /\ ~is_connected
    /\ \A i \in DOMAIN plc : ~plc[i]

\* reader c is inside read_discrete_input or write_discrete_output
InCall(c) == run[c].call # NoCall

\* start_server lines 89-105: accept, track the connection, start its reader
Accept(c) ==
    /\ pc[c] = "closed"
    /\ clients' = clients \cup {c}
    /\ pc' = [pc EXCEPT ![c] = "idle"]
    /\ UNCHANGED <<message_handlers, system_status, is_connected, plc, req, out, run>>
    /\ UNCHANGED auxVars

\* _handle_client lines 126-128, 143-144: recv gives no data, the reader
\* leaves its loop and _disconnect_client removes the entry
ClientEOF(c) ==
    /\ pc[c] = "idle"
    /\ clients' = clients \ {c}
    /\ pc' = [pc EXCEPT ![c] = "closed"]
    /\ req' = [req EXCEPT ![c] = NoLine]
    /\ out' = [out EXCEPT ![c] = <<>>]
    /\ run' = [run EXCEPT ![c] = NoRun]
    /\ UNCHANGED <<message_handlers, system_status, is_connected, plc>>
    /\ UNCHANGED auxVars

\* _send_response for the reader's own connection, then the reader's return
\* to recv.  line is the line being answered, sofar what was already written
\* for it, resp a sequence of at most one message, r the reader's run record.
\* A failed socket send makes _send_response call _disconnect_client; the
\* reader then ends (line 139 finds its entry gone, the finally clause runs).
SendResponse(c, line, sofar, resp, sendOk, r) ==
    IF resp = <<>> \/ c \notin clients \/ sendOk
    THEN /\ out' = [out EXCEPT ![c] =
                       IF resp = <<>> \/ c \notin clients THEN sofar ELSE sofar \o resp]
         /\ pc' = [pc EXCEPT ![c] = "idle"]
         /\ req' = [req EXCEPT ![c] = line]
         /\ run' = [run EXCEPT ![c] = r]
         /\ UNCHANGED clients
    ELSE /\ clients' = clients \ {c}
         /\ pc' = [pc EXCEPT ![c] = "closed"]
         /\ req' = [req EXCEPT ![c] = NoLine]
         /\ out' = [out EXCEPT ![c] = <<>>]
         /\ run' = [run EXCEPT ![c] = NoRun]

\* _handle_client lines 133-136 with _process_message: the reader takes one
\* complete non-empty line and handles it.  With the hardware-backed handler
\* bound to the type, this is the handler's start, up to the call of
\* execute_marking_sequence.
HandleLine(c, line, sendOk) ==
    /\ pc[c] = "idle"
    /\ IF ~Parses(line)
       THEN \* lines 172-175: logged, nothing is sent
            /\ SendResponse(c, line, <<>>, <<>>, sendOk, NoRun)
            /\ UNCHANGED system_status
       ELSE IF line.message_type \notin DOMAIN message_handlers
       THEN \* lines 164-170
            /\ SendResponse(c, line, <<>>,
                   <<CreateErrorResponse(line.message_id,
                        UnknownTypeText(line.message_type))>>,
                   sendOk, NoRun)
            /\ UNCHANGED system_status
       ELSE IF message_handlers[line.message_type] = PLC_MARKING
       THEN /\ UNCHANGED system_status
            /\ IF line.payload.t # "dict"
               THEN \* main.py:155 raises, caught at main.py:176
                    SendResponse(c, line, <<>>,
                        <<CreateErrorResponse(line.message_id,
                             "Hardware error: " \o STR_HAS_NO_GET)>>,
                        sendOk, NoRun)
               ELSE /\ pc' = [pc EXCEPT ![c] = "pp"]
                    /\ req' = [req EXCEPT ![c] = line]
                    /\ out' = [out EXCEPT ![c] = <<>>]
                    /\ run' = [run EXCEPT ![c] = [NoRun EXCEPT !.result = "running"]]
                    /\ UNCHANGED clients
       ELSE LET o == Invoke(message_handlers[line.message_type], line,
                            system_status, clients)
            IN /\ o.status.marks_completed <= MaxMarks
               /\ system_status' = o.status
               /\ SendResponse(c, line, <<>>, o.resp, sendOk, NoRun)
    /\ UNCHANGED <<message_handlers, is_connected, plc>>
    /\ UNCHANGED auxVars

\* The call made at pc[c] has come back with v: the sequence runs on to its
\* next fieldbus call, or returns to plc_marking_handler, which answers.
Complete(c, r, op, v, sendOk) ==
    LET nx == After(pc[c], r, op, v)
    IN IF nx.pc = "ret"
       THEN SendResponse(c, req[c], out[c],
                <<PlcMarkingResponse(req[c], nx.run.result = True)>>, sendOk, nx.run)
       ELSE /\ pc' = [pc EXCEPT ![c] = nx.pc]
            /\ run' = [run EXCEPT ![c] = nx.run]
            /\ UNCHANGED <<clients, req, out>>

\* read_discrete_input lines 109-112 / write_discrete_output lines 130-133:
\* the run calls the operation of its position.  Disconnected, the call
\* returns at once (None or False); connected, the caller is inside the
\* call's try block.
EnterFieldbusCall(c, sendOk) ==
    /\ pc[c] \in OpPcs
    /\ ~InCall(c)
    /\ LET op == OpAt(pc[c], run[c])
           r == IF op.kind = "write"
                THEN [run[c] EXCEPT !.writes =
                         Append(@, [address |-> op.address, value |-> op.value])]
                ELSE run[c]
       IN IF is_connected
          THEN /\ run' = [run EXCEPT ![c] = [r EXCEPT !.call = op]]
               /\ UNCHANGED <<clients, pc, req, out>>
          ELSE Complete(c, r, op, IF op.kind = "read" THEN None ELSE False, sendOk)
    /\ UNCHANGED <<message_handlers, system_status, is_connected, plc>>
    /\ UNCHANGED auxVars

\* read_discrete_input lines 113-124 / write_discrete_output lines 134-146:
\* the request is built; struct.error sends the caller to the except clause
\* (None or False).  With a request built, it is sent, recv gives response
\* (or raises) and the call returns what the parser makes of it.
LeaveFieldbusCall(c, response, sendOk) ==
    /\ pc[c] \in OpPcs
    /\ InCall(c)
    /\ LET op == run[c].call
           r == [run[c] EXCEPT !.call = NoCall]
       IN IF FrameOf(op) = StructError
          THEN Complete(c, r, op, IF op.kind = "read" THEN None ELSE False, sendOk)
          ELSE /\ Answers(op, response)
               /\ Complete(c, [r EXCEPT !.frames = TRUE], op,
                           Exchanged(op, response), sendOk)
    /\ UNCHANGED <<message_handlers, system_status, is_connected, plc>>
    /\ UNCHANGED auxVars

Next ==
    \/ \E c \in Clients : Accept(c)
    \/ \E c \in Clients : ClientEOF(c)
    \/ \E c \in Clients, line \in Lines, sendOk \in BOOLEAN : HandleLine(c, line, sendOk)
    \/ \E c \in Clients, sendOk \in BOOLEAN : EnterFieldbusCall(c, sendOk)
    \/ \E c \in Clients, response \in Responses, sendOk \in BOOLEAN :
           LeaveFieldbusCall(c, response, sendOk)

Spec == Init /\ [][Next]_vars

\* a step of reader c inside execute_marking_sequence
SequenceStep(c) ==
    \/ \E sendOk \in BOOLEAN : EnterFieldbusCall(c, sendOk)
    \/ \E response \in Responses, sendOk \in BOOLEAN :
           LeaveFieldbusCall(c, response, sendOk)

\* Fairness: the reader threads are scheduled and every fieldbus call
\* returns (the socket has a timeout, plc_interface.py:81: recv gives a
\* response or raises).
\* The server as main.py sets it up: the hardware-backed handler is bound
\* to marking_request.
InitPlc == Init /\ message_handlers["marking_request"] = PLC_MARKING

SpecLive ==
    /\ InitPlc
    /\ [][Next]_vars
    /\ \A c \in Clients : WF_vars(SequenceStep(c))

-----------------------------------------------------------------------------
(* The request builder on its own: _build_modbus_request applied to the    *)
(* function codes of its three callers and to addresses and values of the  *)
(* 16-bit range.                                                           *)

\* the addresses tried: the low ones up to MaxAddress, and the highest
MaxAddress == 7
Addresses == 0..MaxAddress \cup {65535}
\* the quantity of a read, the two coil values, the highest value
Values == {1, COIL_OFF, COIL_ON, 65535}
FunctionCodes == {READ_DISCRETE_INPUTS, READ_INPUT_REGISTERS, WRITE_SINGLE_COIL}

\* request = self._build_modbus_request(function_code, address, value)
BuildRequest(function_code, address, value) ==
    /\ applied' = [function_code |-> function_code, address |-> address,
                   value |-> value,
                   request |-> BuildModbusRequest(function_code, address, value)]
    /\ UNCHANGED <<coreVars, codec, socks, monitor, stopper, errors, swap, net, stream, link, wire, tally>>

NextBuild ==
    \E function_code \in FunctionCodes, address \in Addresses, value \in Values :
        BuildRequest(function_code, address, value)

SpecBuild == InitAlone /\ [][NextBuild]_vars

-----------------------------------------------------------------------------
(* The line codec: json.dumps(asdict(message)) + '\n' of _send_response    *)
(* and broadcast_message, json.loads and the NetworkMessage built from its *)
(* result in _process_message.  A text is a sequence of characters; the characters   *)
(* kept apart are the line feed, the double quote, the backslash, the      *)
(* punctuation of JSON and the letter n (of the escape \n); a field name   *)
(* counts as one character.  A value is a string or a dict of values.      *)

MaxStrLen == 2
Chars == {"a", "n", "LF", "QUOTE", "BSL"}

\* the strings of at most n characters
StrsUpTo(n) == UNION {[1..k -> Chars] : k \in 0..n}

Str(s) == [t |-> "str", s |-> s]
\* a dict: its items in insertion order, each <<key, value>>
Dict(items) == [t |-> "dict", items |-> items]

\* a slip: the line feed goes into the text as it is
RECURSIVE EscapeRawNewline(_)
EscapeRawNewline(s) ==
    IF s = <<>> THEN <<>>
    ELSE (CASE Head(s) = "QUOTE" -> <<"BSL", "QUOTE">>
            [] Head(s) = "BSL" -> <<"BSL", "BSL">>
            [] OTHER -> <<Head(s)>>) \o EscapeRawNewline(Tail(s))
\* json.dumps of the characters of a string: \n, \" and \\ for the line
\* feed, the quote and the backslash
RECURSIVE Escape(_)
Escape(s) ==
    IF s = <<>> THEN <<>>
    ELSE (CASE Head(s) = "LF" -> <<"BSL", "n">>
            [] Head(s) = "QUOTE" -> <<"BSL", "QUOTE">>
            [] Head(s) = "BSL" -> <<"BSL", "BSL">>
            [] OTHER -> <<Head(s)>>) \o Escape(Tail(s))

\* json.dumps with its default separators ", " and ": "
RECURSIVE JsonDumps(_), DumpsItems(_)
JsonDumps(v) ==
    IF v.t = "str" THEN <<"QUOTE">> \o Escape(v.s) \o <<"QUOTE">>
    ELSE <<"{">> \o DumpsItems(v.items) \o <<"}">>
DumpsItems(items) ==
    IF items = <<>> THEN <<>>
    ELSE <<"QUOTE">> \o Escape(items[1][1]) \o <<"QUOTE", ":", " ">>
         \o JsonDumps(items[1][2])
         \o (IF Len(items) > 1 THEN <<",", " ">> ELSE <<>>)
         \o DumpsItems(Tail(items))

\* dataclasses.asdict(message): the fields in their order of declaration
AsDict(m) ==
    Dict(<< <<<<"message_id">>, m.message_id>>, <<<<"timestamp">>, m.timestamp>>,
            <<<<"message_type">>, m.message_type>>, <<<<"payload">>, m.payload>>,
            <<<<"client_id">>, m.client_id>> >>)

\* _send_response line 305 / broadcast_message line 315
Encode(m) == JsonDumps(AsDict(m)) \o <<"LF">>

\* json.loads: what a scan gives: whether it succeeded, the value, and the
\* place behind it
Fail == [ok |-> FALSE, value |-> <<>>, next |-> 0]
Got(value, next) == [ok |-> TRUE, value |-> value, next |-> next]

\* the body of a string from place i on, up to its closing quote; a raw
\* control character or an unknown escape is an error
RECURSIVE ScanString(_, _, _)
ScanString(text, i, acc) ==
    IF i > Len(text) THEN Fail
    ELSE CASE text[i] = "QUOTE" -> Got(acc, i + 1)
           [] text[i] = "LF" -> Fail
           [] text[i] = "BSL" ->
                  IF i + 1 > Len(text) THEN Fail
                  ELSE CASE text[i + 1] = "n" -> ScanString(text, i + 2, Append(acc, "LF"))
                         [] text[i + 1] = "QUOTE" ->
                                ScanString(text, i + 2, Append(acc, "QUOTE"))
                         [] text[i + 1] = "BSL" ->
                                ScanString(text, i + 2, Append(acc, "BSL"))
                         [] OTHER -> Fail
           [] OTHER -> ScanString(text, i + 1, Append(acc, text[i]))

\* the first place from i on that holds no white space
RECURSIVE SkipWs(_, _)
SkipWs(text, i) ==
    IF i <= Len(text) /\ text[i] \in {" ", "LF"} THEN SkipWs(text, i + 1) ELSE i

\* a dict assignment d[key] = value: a key already there keeps its place
RECURSIVE Put(_, _, _)
Put(items, key, value) ==
    IF items = <<>> THEN << <<key, value>> >>
    ELSE IF items[1][1] = key THEN << <<key, value>> >> \o Tail(items)
    ELSE <<items[1]>> \o Put(Tail(items), key, value)

RECURSIVE ParseValue(_, _), ParseMembers(_, _, _)
ParseValue(text, i) ==
    LET j == SkipWs(text, i)
    IN IF j > Len(text) THEN Fail
       ELSE IF text[j] = "QUOTE"
       THEN LET r == ScanString(text, j + 1, <<>>)
            IN IF r.ok THEN Got(Str(r.value), r.next) ELSE Fail
       ELSE IF text[j] = "{"
       THEN LET k == SkipWs(text, j + 1)
            IN IF k <= Len(text) /\ text[k] = "}" THEN Got(Dict(<<>>), k + 1)
               ELSE ParseMembers(text, k, <<>>)
       ELSE Fail
ParseMembers(text, i, items) ==
    IF i > Len(text) \/ text[i] # "QUOTE" THEN Fail
    ELSE LET key == ScanString(text, i + 1, <<>>)
         IN IF ~key.ok THEN Fail
            ELSE LET c == SkipWs(text, key.next)
                 IN IF c > Len(text) \/ text[c] # ":" THEN Fail
                    ELSE LET val == ParseValue(text, c + 1)
                         IN IF ~val.ok THEN Fail
                            ELSE LET e == SkipWs(text, val.next)
                                     more == Put(items, key.value, val.value)
                                 IN IF e > Len(text) THEN Fail
                                    ELSE IF text[e] = ","
                                    THEN ParseMembers(text, SkipWs(text, e + 1), more)
                                    ELSE IF text[e] = "}" THEN Got(Dict(more), e + 1)
                                    ELSE Fail

\* json.loads(text): one value, with nothing but white space behind it
JsonDecode(text) ==
    LET r == ParseValue(text, 1)
    IN IF r.ok /\ SkipWs(text, r.next) > Len(text) THEN r ELSE Fail

Keys(items) == {items[i][1] : i \in 1..Len(items)}
Value(items, key) == items[CHOOSE i \in 1..Len(items) : items[i][1] = key][2]
FieldKeys(fields) == {<<f>> : f \in fields}

\* NetworkMessage(**message_dict): the keys are fields of the dataclass and
\* include those without a default; client_id defaults to ""
BuildMessage(v) ==
    IF v.t = "dict" /\ FieldKeys(Required) \subseteq Keys(v.items)
                    /\ Keys(v.items) \subseteq FieldKeys(MessageFields)
    THEN Got([message_id |-> Value(v.items, <<"message_id">>),
              timestamp |-> Value(v.items, <<"timestamp">>),
              message_type |-> Value(v.items, <<"message_type">>),
              payload |-> Value(v.items, <<"payload">>),
              client_id |-> IF <<"client_id">> \in Keys(v.items)
                            THEN Value(v.items, <<"client_id">>) ELSE Str(<<>>)],
             0)
    ELSE Fail

\* a slip in line 154: the identity is set only when the envelope gave none
DecodeKeepsClientId(text, client_id) ==
    LET r == JsonDecode(text)
        m == IF r.ok THEN BuildMessage(r.value) ELSE Fail
    IN IF m.ok
       THEN Got(IF m.value.client_id = Str(<<>>)
                THEN [m.value EXCEPT !.client_id = Str(client_id)] ELSE m.value, 0)
       ELSE Fail
\* _process_message lines 150-154 for a line received on connection client_id:
\* json.loads, NetworkMessage(**message_dict), message.client_id = client_id
Decode(text, client_id) ==
    LET r == JsonDecode(text)
        m == IF r.ok THEN BuildMessage(r.value) ELSE Fail
    IN IF m.ok THEN Got([m.value EXCEPT !.client_id = Str(client_id)], 0) ELSE Fail

\* the messages encoded: any id, a payload that is empty, holds one string or
\* holds one dict, and the client identity "" (of every message the server
\* builds) or one set before
Payloads ==
    {Dict(<<>>)}
    \cup {Dict(<< <<k, Str(v)>> >>) : k \in StrsUpTo(1), v \in StrsUpTo(1)}
    \cup {Dict(<< <<k, Dict(<<>>)>> >>) : k \in StrsUpTo(1)}
Messages ==
    [message_id : {Str(s) : s \in StrsUpTo(MaxStrLen)},
     timestamp : {Str(<<"a">>)},
     message_type : {Str(<<"a", "n">>)},
     payload : Payloads,
     client_id : {Str(<<>>), Str(<<"a">>)}]
\* the identities of the connections a line is received on
Receivers == {<<"a">>, <<"n", "a">>}

\* a message is written: message_json = json.dumps(asdict(message)) + '\n'
\* (one message is followed from its encoding to its decoding)
EncodeMessage(m) ==
    /\ codec = NoCodec
    /\ codec' = [message |-> m, line |-> Encode(m), receiver |-> <<>>,
                 decoded |-> <<>>]
    /\ UNCHANGED <<coreVars, applied, socks, monitor, stopper, errors, swap, net, stream, link, wire, tally>>

\* the line written is received on a connection and _process_message
\* builds the message from it
DecodeLine(client_id) ==
    /\ codec.line # <<>>
    /\ codec.receiver = <<>>
    /\ codec' = [codec EXCEPT !.receiver = client_id,
                              !.decoded = Decode(codec.line, client_id)]
    /\ UNCHANGED <<coreVars, applied, socks, monitor, stopper, errors, swap, net, stream, link, wire, tally>>

NextCodec ==
    \/ \E m \in Messages : EncodeMessage(m)
    \/ \E client_id \in Receivers : DecodeLine(client_id)

SpecCodec == InitAlone /\ [][NextCodec]_vars

-----------------------------------------------------------------------------
(* The connection map and the threads that change or iterate it: the       *)
(* accept loop, the readers' finally clause, the monitor thread's          *)
(* broadcast_message and stop_server.  A reader is in recv ("idle"), at    *)
(* the membership test of _disconnect_client ("disc") or behind it, before *)
(* the del statement ("del").  No handler runs here.                       *)

Range(seq) == {seq[i] : i \in 1..Len(seq)}

\* the orders list(self.clients.keys()) can give
RECURSIVE Orders(_)
Orders(set) ==
    IF set = {} THEN {<<>>}
    ELSE UNION {{<<x>> \o rest : rest \in Orders(set \ {x})} : x \in set}

\* what the variables of the request handling do in these steps
ConnUnchanged ==
    UNCHANGED <<message_handlers, system_status, is_connected, plc, req, out, run,
                applied, codec, swap, net, stream, link, wire, tally>>

\* some thread still holds this client id in a local variable
Held(c) ==
    \/ c \in monitor.seen \cup Range(monitor.todo)
    \/ c \in Range(stopper.todo)

\* self.is_running as stop_server leaves it
IsRunning == stopper.pc \in {"idle", "timer"}

\* start_server lines 87-105: accept while the server socket is open.  The
\* while test of line 87 is made between two accepts: the accept under way
\* when is_running is cleared still tracks its connection, then the loop ends
ConnAccept(c) ==
    /\ stopper.pc # "done"
    /\ ~stopper.late
    /\ pc[c] = "closed" /\ c \notin clients /\ ~Held(c)
    /\ clients' = clients \cup {c}
    /\ socks' = socks \cup {c}
    /\ pc' = [pc EXCEPT ![c] = "idle"]
    /\ stopper' = [stopper EXCEPT !.late = ~IsRunning]
    /\ UNCHANGED <<monitor, errors>>
    /\ ConnUnchanged

\* _handle_client lines 126-128, 141-144: recv gives no data or raises (the
\* peer went away, or the socket was closed under the reader); the reader
\* enters its finally clause
ReaderEnds(c) ==
    /\ pc[c] = "idle"
    /\ pc' = [pc EXCEPT ![c] = "disc"]
    /\ UNCHANGED <<clients, socks, monitor, stopper, errors>>
    /\ ConnUnchanged

\* _disconnect_client lines 333-337 in the reader: the membership test and,
\* when it finds the entry, the close of the socket
ReaderCheck(c) ==
    /\ pc[c] = "disc"
    /\ IF c \in clients
       THEN /\ pc' = [pc EXCEPT ![c] = "del"]
            /\ socks' = socks \ {c}
       ELSE /\ pc' = [pc EXCEPT ![c] = "closed"]
            /\ UNCHANGED socks
    /\ UNCHANGED <<clients, monitor, stopper, errors>>
    /\ ConnUnchanged

\* _disconnect_client line 338 in the reader: del self.clients[client_id],
\* a KeyError when the entry has gone since the test
ReaderDelete(c) ==
    /\ pc[c] = "del"
    /\ pc' = [pc EXCEPT ![c] = "closed"]
    /\ clients' = clients \ {c}
    /\ monitor' = [monitor EXCEPT !.stable = @ \ {c}]
    /\ errors' = IF c \in clients THEN errors
                 ELSE errors \cup {[thread |-> c, error |-> "KeyError"]}
    /\ UNCHANGED <<socks, stopper>>
    /\ ConnUnchanged

\* _monitor_system lines 345-361, broadcast_message lines 315-318: the server
\* runs, the map is not empty, the iterator over self.clients.items() is made
MonitorBegins ==
    /\ monitor.pc = "sleep"
    /\ IsRunning
    /\ clients # {}
    /\ monitor' = [IdleMonitor EXCEPT !.pc = "iter", !.size = Cardinality(clients),
                                     !.start = clients, !.stable = clients,
                                     !.unslept = monitor.outcome \in
                                                     {"RuntimeError", "KeyError"}]
    /\ UNCHANGED <<clients, socks, pc, stopper, errors>>
    /\ ConnUnchanged

\* how a round ends: the thread is back in its loop (time.sleep, or the
\* except clause of line 365 after an exception)
RoundOver(outcome) == [IdleMonitor EXCEPT !.outcome = outcome]

\* broadcast_message lines 321-323: the send to c raised
SendRaised(m, c) ==
    [m EXCEPT !.seen = @ \cup {c}, !.failed = @ \cup {c}, !.todo = Append(@, c)]

\* broadcast_message lines 318-323: one turn of the for loop.  The iterator
\* raises RuntimeError when the dict has another length than at its making;
\* the error leaves broadcast_message.  Otherwise it gives an entry not yet
\* seen, and the message is sent to its socket (a send to a closed socket
\* raises), or it is exhausted and the clean-up loop of line 326 starts.
MonitorNext(sendOk) ==
    /\ monitor.pc = "iter"
    /\ IF Cardinality(clients) # monitor.size
       THEN /\ monitor' = RoundOver("RuntimeError")
            /\ errors' = errors \cup {[thread |-> "monitor", error |-> "RuntimeError"]}
       ELSE /\ UNCHANGED errors
            /\ IF clients \ monitor.seen = {}
               THEN monitor' = IF monitor.todo = <<>> THEN RoundOver("done")
                               ELSE [monitor EXCEPT !.pc = "cleanup"]
               ELSE \E c \in clients \ monitor.seen :
                       monitor' = IF sendOk /\ c \in socks
                                  THEN [monitor EXCEPT !.seen = @ \cup {c},
                                                       !.sent = @ \cup {c}]
                                  ELSE SendRaised(monitor, c)
    /\ UNCHANGED <<clients, socks, pc, stopper>>
    /\ ConnUnchanged

\* broadcast_message lines 326-327 with _disconnect_client lines 333-337: the
\* membership test for the next of disconnected_clients, and the close
MonitorCheck ==
    /\ monitor.pc = "cleanup"
    /\ LET c == Head(monitor.todo)
       IN IF c \in clients
          THEN /\ monitor' = [monitor EXCEPT !.pc = "del"]
               /\ socks' = socks \ {c}
          ELSE /\ monitor' = IF Tail(monitor.todo) = <<>> THEN RoundOver("done")
                             ELSE [monitor EXCEPT !.todo = Tail(@)]
               /\ UNCHANGED socks
    /\ UNCHANGED <<clients, pc, stopper, errors>>
    /\ ConnUnchanged

\* _disconnect_client line 338 in the monitor thread; a KeyError leaves
\* broadcast_message
MonitorDelete ==
    /\ monitor.pc = "del"
    /\ LET c == Head(monitor.todo)
       IN /\ clients' = clients \ {c}
          /\ IF c \in clients
             THEN /\ monitor' = IF Tail(monitor.todo) = <<>> THEN RoundOver("done")
                                ELSE [monitor EXCEPT !.pc = "cleanup", !.todo = Tail(@),
                                                     !.stable = @ \ {c}]
                  /\ UNCHANGED errors
             ELSE /\ monitor' = RoundOver("KeyError")
                  /\ errors' = errors \cup {[thread |-> "monitor", error |-> "KeyError"]}
    /\ UNCHANGED <<socks, pc, stopper>>
    /\ ConnUnchanged

\* stop_server lines 372-375: is_running = False, list(self.clients.keys())
BeginStop ==
    /\ \E todo \in Orders(clients) :
          stopper' = IF todo = <<>> THEN [stopper EXCEPT !.pc = "done", !.todo = <<>>]
                     ELSE [stopper EXCEPT !.pc = "loop", !.todo = todo]
    /\ UNCHANGED <<clients, socks, pc, monitor, errors>>
    /\ ConnUnchanged

\* main.py:309: the application's stop() calls stop_server
StopBegins == stopper.pc = "idle" /\ BeginStop

\* stop_server line 376 with _disconnect_client lines 333-337
StopCheck ==
    /\ stopper.pc = "loop"
    /\ LET c == Head(stopper.todo)
       IN IF c \in clients
          THEN /\ stopper' = [stopper EXCEPT !.pc = "del"]
               /\ socks' = socks \ {c}
          ELSE /\ stopper' = IF Tail(stopper.todo) = <<>>
                             THEN [stopper EXCEPT !.pc = "done", !.todo = <<>>]
                             ELSE [stopper EXCEPT !.todo = Tail(@)]
               /\ UNCHANGED socks
    /\ UNCHANGED <<clients, pc, monitor, errors>>
    /\ ConnUnchanged

\* _disconnect_client line 338 in stop_server; a KeyError leaves stop_server
\* before the server socket is closed
StopDelete ==
    /\ stopper.pc = "del"
    /\ LET c == Head(stopper.todo)
       IN /\ clients' = clients \ {c}
          /\ monitor' = [monitor EXCEPT !.stable = @ \ {c}]
          /\ IF c \in clients
             THEN /\ stopper' = IF Tail(stopper.todo) = <<>>
                                THEN [stopper EXCEPT !.pc = "done", !.todo = <<>>]
                                ELSE [stopper EXCEPT !.pc = "loop", !.todo = Tail(@)]
                  /\ UNCHANGED errors
             ELSE /\ stopper' = [stopper EXCEPT !.pc = "raised", !.todo = <<>>]
                  /\ errors' = errors \cup {[thread |-> "stopper", error |-> "KeyError"]}
    /\ UNCHANGED <<socks, pc>>
    /\ ConnUnchanged

NextConn ==
    \/ \E c \in Clients : ConnAccept(c)
    \/ \E c \in Clients : ReaderEnds(c)
    \/ \E c \in Clients : ReaderCheck(c)
    \/ \E c \in Clients : ReaderDelete(c)
    \/ MonitorBegins
    \/ \E sendOk \in BOOLEAN : MonitorNext(sendOk)
    \/ MonitorCheck
    \/ MonitorDelete
    \/ StopBegins
    \/ StopCheck
    \/ StopDelete

SpecConn == InitAlone /\ [][NextConn]_vars

-----------------------------------------------------------------------------
(* The shutdown command: a reader handles system_command shutdown, the     *)
(* handler starts threading.Timer(1.0, self.stop_server) and the reader    *)
(* writes the command_response; the timer's thread then runs stop_server   *)
(* beside the accept loop and the readers.  The monitor thread is left     *)
(* out, and a second shutdown command before the first timer fires starts  *)
(* no second timer here.                                                   *)

ShutdownLine == Obj(Required, "req1", "system_command",
                    DictPayload("ABSENT", "shutdown"))

\* _handle_client lines 126-139 for a shutdown line: _process_message calls
\* the handler (line 259 starts the timer) and _send_response writes to the
\* entry's socket if the entry is there.  A send that raises makes
\* _send_response run _disconnect_client (the steps behind "disc"); with the
\* entry gone, by that call or by stop_server, line 139 raises KeyError, which
\* except socket.error does not catch: the finally clause runs and the error
\* leaves the reader's thread.
ShutdownCommand(c, sendOk) ==
    /\ pc[c] = "idle"
    /\ LET o == Invoke(message_handlers[ShutdownLine.message_type], ShutdownLine,
                        system_status, clients)
       IN /\ stopper' = IF stopper.pc = "idle" THEN [stopper EXCEPT !.pc = "timer"]
                         ELSE stopper
          /\ IF c \in clients /\ c \in socks /\ sendOk
             THEN /\ req' = [req EXCEPT ![c] = ShutdownLine]
                  /\ out' = [out EXCEPT ![c] = o.resp]
                  /\ UNCHANGED <<pc, errors>>
             ELSE /\ pc' = [pc EXCEPT ![c] = "disc"]
                  /\ errors' = errors \cup {[thread |-> c, error |-> "KeyError"]}
                  /\ UNCHANGED <<req, out>>
    /\ UNCHANGED <<clients, socks, monitor>>
    /\ UNCHANGED <<message_handlers, system_status, is_connected, plc, run,
                   applied, codec, swap, net, stream, link, wire, tally>>

\* threading.Timer(1.0, self.stop_server): the interval is over and the
\* timer's thread calls stop_server
TimerFires == stopper.pc = "timer" /\ BeginStop

NextStop ==
    \/ \E c \in Clients : ConnAccept(c)
    \/ \E c \in Clients : ReaderEnds(c)
    \/ \E c \in Clients : ReaderCheck(c)
    \/ \E c \in Clients : ReaderDelete(c)
    \/ \E c \in Clients, sendOk \in BOOLEAN : ShutdownCommand(c, sendOk)
    \/ TimerFires
    \/ StopCheck
    \/ StopDelete

SpecStop == InitAlone /\ [][NextStop]_vars

-----------------------------------------------------------------------------
(* register_handler called while readers dispatch: _process_message reads  *)
(* the handler of the type once (line 159) and calls what it read (line    *)
(* 161); register_handler is one store into the dict (line 66).  The link  *)
(* to the controller is down, so the hardware-backed handler returns       *)
(* without blocking.                                                       *)

\* the lines of the type whose handler is replaced
MarkingLines == {line \in Lines : Parses(line) /\ line.message_type = "marking_request"}

\* main.py plc_marking_handler with the link down: execute_marking_sequence
\* returns from its first read
PlcHandlerOffline(m) ==
    IF m.payload.t # "dict"
    THEN CreateErrorResponse(m.message_id, "Hardware error: " \o STR_HAS_NO_GET)
    ELSE PlcMarkingResponse(m,
             After("pp", NoRun, ReadOp(PRODUCT_PRESENT), None).run.result = True)

\* response = handler(message) for the handler a reader holds
CallHandler(handler, m, status, tracked) ==
    IF handler = PLC_MARKING THEN Returned(PlcHandlerOffline(m), status)
    ELSE Invoke(handler, m, status, tracked)

SwapUnchanged == UNCHANGED <<is_connected, plc, run, applied, codec, socks, monitor,
                             stopper, errors, net, stream, link, wire, tally>>

\* register_handler("marking_request", handler), from any thread
Register(handler) ==
    /\ message_handlers' = RegisterHandler(message_handlers, "marking_request", handler)
    /\ swap' = [swap EXCEPT !.registered = handler,
                            !.inflight = [c \in Clients |-> @[c] \/ pc[c] = "call"]]
    /\ UNCHANGED <<clients, system_status, pc, req, out>>
    /\ SwapUnchanged

\* _process_message lines 152-159: the line parses, the handler is read
Lookup(c, line) ==
    /\ pc[c] = "idle"
    /\ pc' = [pc EXCEPT ![c] = "call"]
    /\ req' = [req EXCEPT ![c] = line]
    /\ out' = [out EXCEPT ![c] = <<>>]
    /\ swap' = [swap EXCEPT
                   !.handler[c] = IF line.message_type \in DOMAIN message_handlers
                                  THEN message_handlers[line.message_type] ELSE None,
                   !.expected[c] = swap.registered,
                   !.inflight[c] = FALSE]
    /\ UNCHANGED <<clients, message_handlers, system_status>>
    /\ SwapUnchanged

\* _process_message lines 160-170: the handler read is called and its
\* response sent
Call(c, sendOk) ==
    /\ pc[c] = "call"
    /\ IF swap.handler[c] = None
       THEN /\ SendResponse(c, req[c], <<>>,
                   <<CreateErrorResponse(req[c].message_id,
                        UnknownTypeText(req[c].message_type))>>, sendOk, NoRun)
            /\ UNCHANGED system_status
       ELSE LET o == CallHandler(swap.handler[c], req[c], system_status, clients)
            IN /\ o.status.marks_completed <= MaxMarks
               /\ system_status' = o.status
               /\ SendResponse(c, req[c], <<>>, o.resp, sendOk, NoRun)
    /\ swap' = [swap EXCEPT !.handler[c] = "unset"]
    /\ UNCHANGED message_handlers
    /\ SwapUnchanged

NextSwap ==
    \/ \E c \in Clients : Accept(c)
    \/ \E handler \in {SIM_MARKING, PLC_MARKING} : Register(handler)
    \/ \E c \in Clients, line \in MarkingLines : Lookup(c, line)
    \/ \E c \in Clients, sendOk \in BOOLEAN : Call(c, sendOk)

SpecSwap == InitAlone /\ [][NextSwap]_vars

-----------------------------------------------------------------------------
(* The identities the accept loop gives: client_<second>_<peer port>.      *)
(* Peers are (host, port) pairs; a pair has at most one connection alive.  *)

MaxSecond == 2
Hosts == {"h1", "h2"}
Ports == {5000, 5001}

\* start_server line 90
ClientId(now, address) ==
    "client_" \o ToString(now) \o "_" \o ToString(address.port)

\* time.time() passes a second boundary
ClockTick ==
    /\ net.now < MaxSecond
    /\ net' = [net EXCEPT !.now = @ + 1]
    /\ UNCHANGED <<coreVars, applied, codec, socks, monitor, stopper, errors, swap, stream, link, wire, tally>>

\* start_server lines 89-97: accept a connection from address and store its
\* entry under the id made of the clock and the peer's port
AcceptFrom(address) ==
    /\ \A a \in net.live : a.address # address
    /\ LET client_id == ClientId(net.now, address)
       IN net' = [net EXCEPT
                     !.live = @ \cup {[address |-> address, client_id |-> client_id]},
                     !.entries = [i \in DOMAIN @ \cup {client_id} |->
                                     IF i = client_id THEN address ELSE @[i]]]
    /\ UNCHANGED <<coreVars, applied, codec, socks, monitor, stopper, errors, swap, stream, link, wire, tally>>

\* _handle_client lines 126-128, 143-144 with _disconnect_client: the reader
\* of a connection ends and removes the entry of its client_id, if any
ReaderGone(address) ==
    /\ \E a \in net.live :
          /\ a.address = address
          /\ net' = [net EXCEPT
                        !.live = @ \ {a},
                        !.entries = [i \in DOMAIN @ \ {a.client_id} |-> @[i]]]
    /\ UNCHANGED <<coreVars, applied, codec, socks, monitor, stopper, errors, swap, stream, link, wire, tally>>

NextAccept ==
    \/ ClockTick
    \/ \E host \in Hosts, port \in Ports : AcceptFrom([host |-> host, port |-> port])
    \/ \E host \in Hosts, port \in Ports : ReaderGone([host |-> host, port |-> port])

SpecAccept == InitAlone /\ [][NextAccept]_vars

-----------------------------------------------------------------------------
(* The reader's loop over what it receives.  A peer sends its lines one    *)
(* after the other, line i being a body numbered i followed by a line      *)
(* feed; recv returns the next pieces in chunks of any size, so a chunk    *)
(* can end inside a line or hold several lines.  A body is a heartbeat     *)
(* request (answered), a line that is not JSON (processed, not answered)   *)
(* or white space only (skipped).                                          *)

MaxLines == 3
MaxChunk == 4
Kinds == {"heartbeat", "malformed", "blank"}

LF == [id |-> 0, kind |-> "LF"]
Body(id, kind) == [id |-> id, kind |-> kind]

\* pieces sent+1 .. sent+n of the peer's stream; kinds[i] is the kind of
\* line i
Chunk(sent, n, kinds) ==
    [j \in 1..n |-> IF (sent + j) % 2 = 0 THEN LF
                    ELSE Body((sent + j + 1) \div 2, kinds[(sent + j + 1) \div 2])]

\* the lines with a body among pieces sent+1 .. sent+n
LinesIn(sent, n) == {(sent + j + 1) \div 2 : j \in {k \in 1..n : (sent + k) % 2 = 1}}

\* '\n' in buffer
HasNewline(buffer) == \E i \in 1..Len(buffer) : buffer[i].kind = "LF"

\* a slip in line 134: rsplit, the line taken is the last complete one
SplitLastLine(buffer) ==
    LET i == CHOOSE k \in 1..Len(buffer) :
                 buffer[k].kind = "LF" /\ \A j \in (k + 1)..Len(buffer) : buffer[j].kind # "LF"
        before == {k \in 1..(i - 1) : buffer[k].kind = "LF"}
        h == IF before = {} THEN 0 ELSE CHOOSE k \in before : \A j \in before : j <= k
    IN [line |-> SubSeq(buffer, h + 1, i - 1),
        buffer |-> SubSeq(buffer, 1, h) \o SubSeq(buffer, i + 1, Len(buffer))]
\* _handle_client line 134: line, buffer = buffer.split('\n', 1)
SplitFirst(buffer) ==
    LET i == CHOOSE k \in 1..Len(buffer) :
                 buffer[k].kind = "LF" /\ \A j \in 1..(k - 1) : buffer[j].kind # "LF"
    IN [line |-> SubSeq(buffer, 1, i - 1),
        buffer |-> SubSeq(buffer, i + 1, Len(buffer))]

\* line.strip() is not empty
NotBlank(line) == \E i \in 1..Len(line) : line[i].kind # "blank"

\* _handle_client lines 133-136 with _process_message and _send_response:
\* the while loop over the complete lines of the buffer.  s is the stream
\* record, tracked whether the connection has its map entry, sendOk whether
\* the next socket send works; a failed send removes the entry, responses
\* after it are not written.
RECURSIVE ProcessBuffer(_, _, _)
ProcessBuffer(s, tracked, sendOk) ==
    IF ~HasNewline(s.buffer) THEN [stream |-> s, tracked |-> tracked]
    ELSE LET split == SplitFirst(s.buffer)
             line == split.line
             rest == [s EXCEPT !.buffer = split.buffer]
         IN IF ~NotBlank(line) THEN ProcessBuffer(rest, tracked, sendOk)
            ELSE LET done == [rest EXCEPT !.processed = @ \o line]
                 IN IF line[1].kind # "heartbeat" \/ ~tracked
                    THEN ProcessBuffer(done, tracked, sendOk)
                    ELSE IF sendOk
                    THEN ProcessBuffer([done EXCEPT !.written = Append(@, line[1].id)],
                                       tracked, sendOk)
                    ELSE ProcessBuffer(done, FALSE, sendOk)

\* _handle_client lines 126-139: recv returns the next n pieces, the buffer
\* grows by them and its complete lines are processed.  After a failed send
\* line 139 finds no entry and the reader ends.
Receive(c, n, sendOk) ==
    /\ pc[c] = "idle"
    /\ stream[c].sent + n <= 2 * MaxLines
    /\ \E kinds \in [LinesIn(stream[c].sent, n) -> Kinds] :
          LET o == ProcessBuffer(
                       [stream[c] EXCEPT !.sent = @ + n,
                                         !.buffer = @ \o Chunk(stream[c].sent, n, kinds)],
                       TRUE, sendOk)
          IN /\ stream' = [stream EXCEPT ![c] = o.stream]
             /\ IF o.tracked THEN UNCHANGED <<clients, pc>>
                ELSE /\ clients' = clients \ {c}
                     /\ pc' = [pc EXCEPT ![c] = "gone"]
    /\ UNCHANGED <<message_handlers, system_status, is_connected, plc, req, out, run,
                   applied, codec, socks, monitor, stopper, errors, swap, net, link, wire, tally>>

NextOrder ==
    \/ \E c \in Clients : Accept(c)
    \/ \E c \in Clients, n \in 1..MaxChunk, sendOk \in BOOLEAN : Receive(c, n, sendOk)

SpecOrder == InitAlone /\ [][NextOrder]_vars

-----------------------------------------------------------------------------
(* The reader's framing at the level of bytes.  A peer writes text in      *)
(* UTF-8, character by character: a letter, a space and the line feed take *)
(* one byte each, a letter outside ASCII takes two (a lead byte and a      *)
(* continuation byte).  recv returns the bytes not yet received in chunks  *)
(* of any size; each chunk is decoded on its own (line 126) and appended   *)
(* to the buffer, whose complete lines are then taken off.  No line of     *)
(* this alphabet is a message, so _process_message answers none of them.   *)

MaxBytes == 4
CharKinds == {"letter", "blank", "accented", "LF"}

\* str.encode('utf-8') of one character, done by the peer
Utf8(c, kind) ==
    IF kind = "accented" THEN <<Body(c, "lead"), Body(c, "cont")>>
    ELSE <<Body(c, kind)>>

\* the characters a sequence of bytes encodes, bytes that are part of no
\* complete character left out
RECURSIVE Utf8Chars(_)
Utf8Chars(data) ==
    IF data = <<>> THEN <<>>
    ELSE IF data[1].kind = "cont" THEN Utf8Chars(Tail(data))
    ELSE IF data[1].kind = "lead"
    THEN IF Len(data) >= 2 /\ data[2].kind = "cont"
         THEN <<Body(data[1].id, "accented")>> \o Utf8Chars(Tail(Tail(data)))
         ELSE Utf8Chars(Tail(data))
    ELSE <<data[1]>> \o Utf8Chars(Tail(data))

\* data is the encoding of a text: every lead byte is followed by a
\* continuation byte, and no continuation byte stands elsewhere
RECURSIVE IsUtf8(_)
IsUtf8(data) ==
    IF data = <<>> THEN TRUE
    ELSE IF data[1].kind = "cont" THEN FALSE
    ELSE IF data[1].kind = "lead"
    THEN Len(data) >= 2 /\ data[2].kind = "cont" /\ IsUtf8(Tail(Tail(data)))
    ELSE IsUtf8(Tail(data))

\* bytes.decode('utf-8') of line 126: the text of data, or
\* UnicodeDecodeError when data is the encoding of none
Utf8Decode(data) ==
    IF IsUtf8(data) THEN [raised |-> "", text |-> Utf8Chars(data)]
    ELSE [raised |-> "UnicodeDecodeError", text |-> <<>>]

\* str.strip() of line 135
RECURSIVE Strip(_)
Strip(line) ==
    IF line = <<>> THEN line
    ELSE IF line[1].kind = "blank" THEN Strip(Tail(line))
    ELSE IF line[Len(line)].kind = "blank" THEN Strip(SubSeq(line, 1, Len(line) - 1))
    ELSE line

\* _handle_client lines 133-136: the while loop over the complete lines of
\* the buffer; w is the wire record
RECURSIVE FrameBuffer(_)
FrameBuffer(w) ==
    IF ~HasNewline(w.buffer) THEN w
    ELSE LET split == SplitFirst(w.buffer)
             rest == [w EXCEPT !.buffer = split.buffer]
         IN IF NotBlank(split.line)
            THEN FrameBuffer([rest EXCEPT !.dispatched = Append(@, Strip(split.line))])
            ELSE FrameBuffer(rest)

\* the bytes all peers have written
RECURSIVE BytesSent(_)
BytesSent(set) ==
    IF set = {} THEN 0
    ELSE LET c == CHOOSE x \in set : TRUE
         IN Len(wire[c].sent) + BytesSent(set \ {c})

WireUnchanged ==
    UNCHANGED <<message_handlers, system_status, is_connected, plc, req, out, run,
                applied, codec, socks, monitor, stopper, errors, swap, net, stream, link, tally>>

\* the peer of connection c writes one more character of its text
PeerSends(c, kind) ==
    /\ pc[c] = "idle"
    /\ BytesSent(Clients) + Len(Utf8(c, kind)) <= MaxBytes
    /\ wire' = [wire EXCEPT ![c].sent = @ \o Utf8(c, kind)]
    /\ UNCHANGED <<clients, pc>>
    /\ WireUnchanged

\* _handle_client lines 124-144: recv returns the next n bytes.  They are
\* decoded; UnicodeDecodeError is no socket.error, it leaves the loop
\* through the finally clause (_disconnect_client) and ends the thread.
\* Decoded, the text is appended to the buffer and the complete lines are
\* dispatched.
RecvBytes(c, n) ==
    /\ pc[c] = "idle"
    /\ wire[c].received + n <= Len(wire[c].sent)
    /\ LET w == wire[c]
           data == Utf8Decode(SubSeq(w.sent, w.received + 1, w.received + n))
       IN IF data.raised # ""
          THEN /\ wire' = [wire EXCEPT ![c] = [w EXCEPT !.received = @ + n,
                                                        !.raised = data.raised]]
               /\ clients' = clients \ {c}
               /\ pc' = [pc EXCEPT ![c] = "gone"]
          ELSE /\ wire' = [wire EXCEPT ![c] =
                              FrameBuffer([w EXCEPT !.received = @ + n,
                                                    !.buffer = @ \o data.text])]
               /\ UNCHANGED <<clients, pc>>
    /\ WireUnchanged

NextFrame ==
    \/ \E c \in Clients : Accept(c)
    \/ \E c \in Clients, kind \in CharKinds : PeerSends(c, kind)
    \/ \E c \in Clients, n \in 1..MaxBytes : RecvBytes(c, n)

SpecFrame == InitAlone /\ [][NextFrame]_vars

-----------------------------------------------------------------------------
(* The counters under concurrent handlers.  Every reader thread runs the   *)
(* handlers itself and no lock guards system_status.  The statement        *)
(* self.system_status["marks_completed"] += 1 of line 217 is a load of the *)
(* item, an addition and a store of the item; another thread can run       *)
(* between the load and the store.  The two stores of reset_statistics     *)
(* (lines 262-263) are taken as one step.  Responses are delivered.        *)

MarkingLine == Obj(Required, "req1", "marking_request", DictPayload("SN123", "ABSENT"))
ResetLine == Obj(Required, "req2", "system_command",
                 DictPayload("ABSENT", "reset_statistics"))

CountUnchanged ==
    UNCHANGED <<clients, message_handlers, is_connected, plc, run,
                applied, codec, socks, monitor, stopper, errors, swap, net, stream,
                link, wire>>

\* _handle_marking_request lines 199-217 for a request with a serial
\* number: the handler has validated it and loads the counter
LoadCounter(c) ==
    /\ pc[c] = "idle"
    /\ tally.succeeded < MaxMarks
    /\ system_status.marks_completed < MaxMarks
    /\ pc' = [pc EXCEPT ![c] = "incr"]
    /\ req' = [req EXCEPT ![c] = MarkingLine]
    /\ out' = [out EXCEPT ![c] = <<>>]
    /\ tally' = [tally EXCEPT !.loaded[c] = system_status.marks_completed]
    /\ UNCHANGED system_status
    /\ CountUnchanged

\* lines 217-225: the sum is stored and the marking_response returned
StoreCounter(c) ==
    /\ pc[c] = "incr"
    /\ system_status' = [system_status EXCEPT !.marks_completed = tally.loaded[c] + 1]
    /\ out' = [out EXCEPT ![c] =
                  HandleMarkingRequest(req[c], system_status, clients).resp]
    /\ pc' = [pc EXCEPT ![c] = "idle"]
    /\ tally' = [tally EXCEPT !.loaded[c] = -1, !.succeeded = @ + 1]
    /\ UNCHANGED req
    /\ CountUnchanged

\* _handle_system_command for reset_statistics, in reader c
ResetCounters(c) ==
    /\ pc[c] = "idle"
    /\ LET o == HandleSystemCommand(ResetLine, system_status, clients)
       IN /\ system_status' = o.status
          /\ out' = [out EXCEPT ![c] = o.resp]
    /\ req' = [req EXCEPT ![c] = ResetLine]
    /\ tally' = [tally EXCEPT !.succeeded = 0]
    /\ UNCHANGED pc
    /\ CountUnchanged

NextCount ==
    \/ \E c \in Clients : Accept(c)
    \/ \E c \in Clients : ClientEOF(c)
    \/ \E c \in Clients : LoadCounter(c)
    \/ \E c \in Clients : StoreCounter(c)
    \/ \E c \in Clients : ResetCounters(c)

SpecCount == InitAlone /\ [][NextCount]_vars

-----------------------------------------------------------------------------
(* The methods of PLCInterface, called one at a time.  A try body gives an *)
(* outcome [raised, value, sent]: the exception that left it ("" for       *)
(* none), its value, and whether connection.send was reached.             *)

Ok(value, sent) == [raised |-> "", value |-> value, sent |-> sent]
Raise(error, sent) == [raised |-> error, value |-> None, sent |-> sent]

\* what recv gives in these calls: an error, an answer too short, one of 9
\* bytes, a full discrete answer, a full register answer
LinkResponses ==
    {RecvError, [err |-> FALSE, len |-> 0, b9 |-> 0], [err |-> FALSE, len |-> 9, b9 |-> 0],
     [err |-> FALSE, len |-> 10, b9 |-> 1], [err |-> FALSE, len |-> 11, b9 |-> 1]}

\* lines 115-118 etc.: the request is built, sent and the response received
SendReceive(connection, request, response) ==
    IF request = StructError THEN Raise("struct.error", FALSE)
    ELSE IF connection = "None" THEN Raise("AttributeError", FALSE)
    ELSE IF connection = "closed" THEN Raise("OSError", FALSE)
    ELSE IF response.err THEN Raise("socket.error", TRUE)
    ELSE Ok(response, TRUE)

\* a slip in lines 122, 144, 172: except socket.error
CatchSocketError(outcome, failure) ==
    IF outcome.raised \in {"socket.error", "OSError"} THEN Ok(failure, outcome.sent)
    ELSE outcome
\* lines 122-124, 144-146, 172-174: except Exception, the failure value
Catch(outcome, failure) ==
    IF outcome.raised # "" THEN Ok(failure, outcome.sent) ELSE outcome

\* read_discrete_input lines 112-120 (with _parse_discrete_response)
TryReadDiscrete(connection, address, response) ==
    LET x == SendReceive(connection,
                 BuildModbusRequest(READ_DISCRETE_INPUTS, address, 1), response)
    IN IF x.raised # "" THEN x
       ELSE IF response.len < 9 THEN Ok(None, TRUE)
       ELSE IF response.len = 9 THEN Raise("IndexError", TRUE)
       ELSE Ok(IF (response.b9 % 2) = 1 THEN True ELSE False, TRUE)

\* PLCInterface.read_discrete_input
ReadDiscreteInput(connected, connection, address, response) ==
    IF ~connected THEN Ok(None, FALSE)
    ELSE Catch(TryReadDiscrete(connection, address, response), None)

\* write_discrete_output lines 133-142 (with _verify_write_response)
TryWriteDiscrete(connection, address, value, response) ==
    LET x == SendReceive(connection,
                 BuildModbusRequest(WRITE_SINGLE_COIL, address, CoilValue(value)),
                 response)
    IN IF x.raised # "" THEN x
       ELSE Ok(IF response.len > 0 THEN True ELSE False, TRUE)

\* PLCInterface.write_discrete_output
WriteDiscreteOutput(connected, connection, address, value, response) ==
    IF ~connected THEN Ok(False, FALSE)
    ELSE Catch(TryWriteDiscrete(connection, address, value, response), False)

\* read_analog_input lines 155-170 (with _parse_register_response): the
\* register of bytes 9 and 10, the low byte taken as 0, scale 1.0 and offset
\* 0.0; the number is written as text
TryReadAnalog(connection, address, response) ==
    LET x == SendReceive(connection,
                 BuildModbusRequest(READ_INPUT_REGISTERS, address, 1), response)
    IN IF x.raised # "" THEN x
       ELSE IF response.len < 11 THEN Ok(None, TRUE)
       ELSE Ok(ToString(response.b9 * 256), TRUE)

\* PLCInterface.read_analog_input
ReadAnalogInput(connected, connection, address, response) ==
    IF ~connected THEN Ok(None, FALSE)
    ELSE Catch(TryReadAnalog(connection, address, response), None)

\* a slip in lines 247, 252: a point whose read failed gets no entry
RecordPointSkipsNone(entries, point, value) ==
    IF value = None THEN entries ELSE (point :> value) @@ entries
\* get_system_status lines 247, 252: status[...][point.description] = value
\* (the points are named by their addresses here)
RecordPoint(entries, point, value) == (point :> value) @@ entries

\* get_system_status lines 245-252: one of its two loops.  reads[a] is the
\* outcome of the read of point a; an exception leaving a read leaves the
\* loop.
RECURSIVE ReadAll(_, _, _)
ReadAll(points, reads, entries) ==
    IF points = {} THEN Ok(entries, FALSE)
    ELSE LET a == CHOOSE x \in points : \A y \in points : x <= y
         IN IF reads[a].raised # "" THEN Raise(reads[a].raised, FALSE)
            ELSE ReadAll(points \ {a}, reads, RecordPoint(entries, a, reads[a].value))

\* PLCInterface.get_system_status; answers.discrete[a] and answers.analog[a]
\* are what recv gives in the read of point a
GetSystemStatus(connected, connection, answers) ==
    IF ~connected THEN Ok([status |-> "disconnected"], FALSE)
    ELSE LET d == ReadAll(discrete_inputs,
                      [a \in discrete_inputs |->
                          ReadDiscreteInput(connected, connection, a, answers.discrete[a])],
                      <<>>)
             g == ReadAll(analog_inputs,
                      [a \in analog_inputs |->
                          ReadAnalogInput(connected, connection, a, answers.analog[a])],
                      <<>>)
         IN IF d.raised # "" THEN d
            ELSE IF g.raised # "" THEN g
            ELSE Ok([connection |-> "connected", discrete_inputs |-> d.value,
                     analog_inputs |-> g.value], FALSE)

\* execute_marking_sequence lines 260-295 from position p on: answers.read[a]
\* is what recv gives in a read of input a, answers.write in a write; a pass
\* of the polling loop takes a second of the deadline
RECURSIVE RunSequence(_, _, _, _, _)
RunSequence(p, r, connected, connection, answers) ==
    LET op == OpAt(p, r)
        o == IF op.kind = "read"
             THEN ReadDiscreteInput(connected, connection, op.address,
                                    answers.read[op.address])
             ELSE WriteDiscreteOutput(connected, connection, op.address, op.value,
                                      answers.write)
        nx == After(p, r, op, o.value)
    IN IF o.raised # "" THEN Raise(o.raised, FALSE)
       ELSE IF nx.pc = "ret" THEN Ok(nx.run.result, FALSE)
       ELSE IF nx.pc = "sleep"
       THEN RunSequence("loop", [nx.run EXCEPT !.rem = @ - 1], connected, connection,
                        answers)
       ELSE IF nx.pc = "hold"
       THEN RunSequence("cyc_off", nx.run, connected, connection, answers)
       ELSE RunSequence(nx.pc, nx.run, connected, connection, answers)

\* PLCInterface.execute_marking_sequence with its except clause, lines
\* 297-300: the error indicator is written and False returned
ExecuteMarkingSequence(connected, connection, answers) ==
    LET o == RunSequence("pp", NoRun, connected, connection, answers)
    IN IF o.raised = "" THEN o
       ELSE LET w == WriteDiscreteOutput(connected, connection, ERROR_INDICATOR, TRUE,
                                         answers.write)
            IN IF w.raised # "" THEN w ELSE Ok(False, FALSE)

LinkUnchanged ==
    UNCHANGED <<clients, message_handlers, system_status, plc, pc, req, out, run,
                applied, codec, socks, monitor, stopper, errors, swap, net, stream, wire, tally>>

\* what a call leaves in link.call
Called(op, answers, o) ==
    [op |-> op, connected |-> is_connected, answers |-> answers, result |-> o.value,
     raised |-> o.raised, sent |-> o.sent]

\* PLCInterface.connect with _connect_modbus_tcp and _connect_modbus_rtu: a
\* new socket that connects (ok) or not, and then is one whose send raises
\* ("closed"); the serial transport sets is_connected and makes no
\* connection object; any other protocol fails.  Gives what the call
\* returns and what it leaves in is_connected and connection.
ConnectOutcome(ok) ==
    [value |-> IF \/ link.protocol = "modbus_tcp" /\ ok
                  \/ link.protocol = "modbus_rtu"
               THEN True ELSE False,
     is_connected |-> (\/ link.protocol = "modbus_tcp" /\ (ok \/ is_connected)
                       \/ link.protocol = "modbus_rtu"
                       \/ link.protocol = "ethernet_ip" /\ is_connected),
     connection |-> IF link.protocol = "modbus_tcp"
                    THEN (IF ok THEN "open" ELSE "closed")
                    ELSE link.connection]

Connect(ok) ==
    /\ is_connected' = ConnectOutcome(ok).is_connected
    /\ link' = [link EXCEPT
                   !.connection = ConnectOutcome(ok).connection,
                   !.released = FALSE,
                   !.call = Called("connect", <<>>, Ok(ConnectOutcome(ok).value, FALSE))]
    /\ LinkUnchanged

\* PLCInterface.disconnect, called by name or by __exit__
Disconnect(op) ==
    /\ is_connected' = IF link.connection # "None" THEN FALSE ELSE is_connected
    /\ link' = [link EXCEPT
                   !.connection = IF @ # "None" THEN "closed" ELSE @,
                   !.released = TRUE,
                   !.call = Called(op, <<>>, Ok(None, FALSE))]
    /\ LinkUnchanged

ReadDiscrete(address, response) ==
    /\ link' = [link EXCEPT !.call =
                   Called("read_discrete_input", <<response>>,
                       ReadDiscreteInput(is_connected, link.connection, address, response))]
    /\ UNCHANGED is_connected
    /\ LinkUnchanged

WriteDiscrete(address, value, response) ==
    /\ link' = [link EXCEPT !.call =
                   Called("write_discrete_output", <<response>>,
                       WriteDiscreteOutput(is_connected, link.connection, address, value,
                                           response))]
    /\ UNCHANGED is_connected
    /\ LinkUnchanged

ReadAnalog(address, response) ==
    /\ link' = [link EXCEPT !.call =
                   Called("read_analog_input", <<response>>,
                       ReadAnalogInput(is_connected, link.connection, address, response))]
    /\ UNCHANGED is_connected
    /\ LinkUnchanged

\* the answers tried in a snapshot: each read fails at recv or is answered
StatusAnswers ==
    [discrete : [discrete_inputs -> {RecvError, [err |-> FALSE, len |-> 10, b9 |-> 1]}],
     analog : [analog_inputs -> {RecvError, [err |-> FALSE, len |-> 11, b9 |-> 1]}]]

SystemStatus(answers) ==
    /\ link' = [link EXCEPT !.call =
                   Called("get_system_status", answers,
                       GetSystemStatus(is_connected, link.connection, answers))]
    /\ UNCHANGED is_connected
    /\ LinkUnchanged

\* the answers tried in a marking sequence
SequenceAnswers ==
    [read : [{PRODUCT_PRESENT, SYSTEM_READY, MARKING_COMPLETE} ->
                 {RecvError, [err |-> FALSE, len |-> 10, b9 |-> 1],
                  [err |-> FALSE, len |-> 10, b9 |-> 0]}],
     write : {RecvError, [err |-> FALSE, len |-> 10, b9 |-> 0]}]

MarkingSequence(answers) ==
    /\ link' = [link EXCEPT !.call =
                   Called("execute_marking_sequence", answers,
                       ExecuteMarkingSequence(is_connected, link.connection, answers))]
    /\ UNCHANGED is_connected
    /\ LinkUnchanged

\* IndustrialMarkingSystem._periodic_health_check (main.py): with
\* is_connected set it takes a snapshot and calls connect() if the snapshot
\* says "disconnected".  The call record's result says whether connect()
\* was called.
PeriodicHealthCheck(answers) ==
    /\ LET o == IF is_connected
                THEN GetSystemStatus(is_connected, link.connection, answers)
                ELSE Ok([skipped |-> TRUE], FALSE)
           reconnect == /\ is_connected
                        /\ o.raised = ""
                        /\ "status" \in DOMAIN o.value
                        /\ o.value.status = "disconnected"
       IN \E ok \in IF reconnect THEN BOOLEAN ELSE {FALSE} :
             /\ is_connected' = IF reconnect THEN ConnectOutcome(ok).is_connected
                                 ELSE is_connected
             /\ link' = [link EXCEPT
                            !.connection = IF reconnect THEN ConnectOutcome(ok).connection
                                           ELSE @,
                            !.released = IF reconnect THEN FALSE ELSE @,
                            !.call = Called("_periodic_health_check", answers,
                                         Ok(IF reconnect THEN "connect called"
                                            ELSE "connect not called", FALSE))]
    /\ LinkUnchanged

NextLink ==
    \/ \E ok \in BOOLEAN : Connect(ok)
    \/ \E op \in {"disconnect", "__exit__"} : Disconnect(op)
    \/ \E address \in discrete_inputs, response \in LinkResponses :
           ReadDiscrete(address, response)
    \/ \E address \in discrete_outputs, value \in BOOLEAN, response \in LinkResponses :
           WriteDiscrete(address, value, response)
    \/ \E address \in analog_inputs, response \in LinkResponses :
           ReadAnalog(address, response)
    \/ \E answers \in StatusAnswers : SystemStatus(answers)
    \/ \E answers \in SequenceAnswers : MarkingSequence(answers)
    \/ \E answers \in StatusAnswers : PeriodicHealthCheck(answers)

\* an interface made for any of the transports, nothing called yet
InitLink ==
    /\ InitCore
    /\ message_handlers = DefaultHandlers
    /\ ~is_connected
    /\ \A i \in DOMAIN plc : ~plc[i]
    /\ InitRest
    /\ link \in {NoLink(protocol) : protocol \in Protocols}

SpecLink == InitLink /\ [][NextLink]_vars

-----------------------------------------------------------------------------
(* Properties *)

Write(address, value) == [address |-> address, value |-> value]
Returned_(c) == run[c].result \in {True, False}
IsMarking(line) == Parses(line) /\ line.message_type = "marking_request"
\* a marking_request whose payload carries no serial_number
LacksSerial(line) ==
    /\ IsMarking(line)
    /\ line.payload.t = "dict"
    /\ line.payload.product_data \in {"ABSENT", "NO_SERIAL"}
\* reader c has finished with a line and its connection is still tracked
Handled(c) == c \in clients /\ pc[c] = "idle" /\ req[c] # NoLine
\* the step is one of reader c's own
StepOf(c) == <<pc[c], req[c], out[c], run[c]>>' # <<pc[c], req[c], out[c], run[c]>>

\* the run of reader d has begun to use the link and has not returned
Begun(d) ==
    /\ run[d].result = "running"
    /\ InCall(d) \/ run[d].frames \/ run[d].product_present # "unread"
\* the device shows these inputs on
Shows(inputs) == \A i \in inputs : plc[i]

C3_PrecheckFailureWritesNothing ==
    \A c \in Clients :
        (run[c].product_present \in {False, None} \/ run[c].system_ready \in {False, None})
            => /\ run[c].result = False
               /\ run[c].writes = <<>>
               /\ ~InCall(c)
C3_Witness ==
    \E c \in Clients :
        /\ is_connected
        /\ pc[c] = "idle" /\ run[c].product_present = None /\ run[c].result = False
        /\ out[c] # <<>>

\* C4: on a connected link to a device that shows product-present and
\* system-ready and never marking-complete, a run that has returned has
\* returned failure after the writes marking-start, status-LED and one
\* error-indicator, and no cycle-complete write
C4_TimeoutSignalsErrorOnce ==
    \A c \in Clients :
        (/\ Returned_(c)
         /\ is_connected
         /\ Shows({PRODUCT_PRESENT, SYSTEM_READY}) /\ ~plc[MARKING_COMPLETE])
            => /\ run[c].result = False
               /\ run[c].writes = <<Write(MARKING_START, TRUE), Write(STATUS_LED, TRUE),
                                    Write(ERROR_INDICATOR, TRUE)>>

\* C5: on a connected link to a device that shows product-present,
\* system-ready and marking-complete, a run that has returned has returned
\* success after the writes marking-start, status-LED, cycle-complete on,
\* cycle-complete off in this order, with no error-indicator write
C5_SuccessWrites ==
    \A c \in Clients :
        (/\ Returned_(c)
         /\ is_connected
         /\ Shows({PRODUCT_PRESENT, SYSTEM_READY, MARKING_COMPLETE}))
            => /\ run[c].result = True
               /\ run[c].writes =
                      <<Write(MARKING_START, TRUE), Write(STATUS_LED, TRUE),
                        Write(CYCLE_COMPLETE, TRUE), Write(CYCLE_COMPLETE, FALSE)>>

\* C6: a marking_request without serial_number is answered by the
\* validation error, sends no fieldbus frame and changes no counter
C6_MissingSerialRejected ==
    /\ [](\A c \in Clients :
            (pc[c] # "closed" /\ LacksSerial(req[c]))
                => /\ ~run[c].frames
                   /\ pc[c] = "idle"
                   /\ c \in clients =>
                         out[c] = <<CreateErrorResponse(req[c].message_id,
                                       "Missing required field: serial_number")>>)
    /\ [][\A c \in Clients :
            (StepOf(c) /\ pc[c] = "idle" /\ pc'[c] # "closed" /\ LacksSerial(req'[c]))
                => system_status' = system_status]_vars

\* C7: once a reader has handled a line of a connection that is still
\* tracked, exactly one response has been written for it
C7_EveryLineAnswered ==
    \A c \in Clients : Handled(c) => Len(out[c]) = 1

\* C8: every response written for a request with id r has the id
\* response_<r>, and is no error response, or the id error_<r>, and is one
C8_ResponseIdCorrelated ==
    \A c \in Clients : \A i \in 1..Len(out[c]) :
        /\ Parses(req[c])
        /\ \/ /\ out[c][i].message_id = "response_" \o req[c].message_id
              /\ out[c][i].message_type # "error_response"
           \/ /\ out[c][i].message_id = "error_" \o req[c].message_id
              /\ out[c][i].message_type = "error_response"
C8_Witness ==
    \E c, d \in Clients :
        /\ message_handlers["marking_request"] = PLC_MARKING
        /\ out[c] # <<>> /\ out[c][1].message_id = "response_req2"
        /\ out[d] # <<>> /\ run[d].result = False /\ out[d][1].message_id = "error_req1"

\* the handler bound to the line's type raises out of its call
HandlerRaises(line) ==
    /\ Parses(line)
    /\ line.message_type \in DOMAIN message_handlers
    /\ message_handlers[line.message_type] # PLC_MARKING
    /\ Invoke(message_handlers[line.message_type], line, system_status, clients).raised

\* C9: a line whose handler raised has been answered with error_<r>, and
\* the reader is back in its receive loop
C9_HandlerFailureAnswered ==
    \A c \in Clients :
        (c \in clients /\ pc[c] \notin SeqPcs /\ HandlerRaises(req[c]))
            => /\ pc[c] = "idle"
               /\ Len(out[c]) = 1
               /\ out[c][1].message_id = "error_" \o req[c].message_id

\* C10: a malformed envelope is answered with an error message on its own
\* connection, and handling it changes nothing of any other connection
C10_MalformedEnvelopeAnswered ==
    /\ [](\A c \in Clients :
            (Handled(c) /\ ~Parses(req[c]))
                => Len(out[c]) = 1 /\ out[c][1].message_type = "error_response")
    /\ [][\A c \in Clients :
            (StepOf(c) /\ pc[c] = "idle" /\ pc'[c] = "idle" /\ ~Parses(req'[c]))
                => \A d \in Clients \ {c} :
                      /\ (d \in clients') = (d \in clients)
                      /\ <<pc[d], req[d], out[d], run[d]>>'
                            = <<pc[d], req[d], out[d], run[d]>>]_vars

\* C20: a request built for function code 2, 4 or 5 with an address and a
\* value in 0..65535 is a frame of 12 bytes: transaction id, protocol id 0
\* and length of two bytes each, unit id and function code of one byte each,
\* address and value of two bytes each; building it does not fail
C20_FrameIsTwelveBytes ==
    applied # NoApply
        => /\ applied.request # StructError
           /\ applied.request.size = 12
           /\ applied.request.fields =
                  <<1, 0, 6, DEFAULT_UNIT_ID, applied.function_code,
                    applied.address, applied.value>>

\* a well-formed line whose type has no registered handler
Unrouted(line) == Parses(line) /\ line.message_type \notin DOMAIN message_handlers

\* C11: a well-formed line whose type has no handler is answered by one
\* error_response with the id error_<request id> and an error text that names
\* the type; handling it runs no handler: the counters stay as they are and
\* no marking run is started
C11_UnknownTypeAnswered ==
    /\ [](\A c \in Clients :
            (Handled(c) /\ Unrouted(req[c]))
                => /\ Len(out[c]) = 1
                   /\ out[c][1].message_id = "error_" \o req[c].message_id
                   /\ out[c][1].message_type = "error_response"
                   /\ out[c][1].payload.error =
                          "Unknown message type: " \o req[c].message_type)
    /\ [][\A c \in Clients :
            (StepOf(c) /\ pc[c] = "idle" /\ pc'[c] # "closed" /\ Unrouted(req'[c]))
                => /\ system_status' = system_status
                   /\ pc'[c] = "idle"
                   /\ run'[c] = NoRun]_vars
C11_Witness ==
    \E c \in Clients :
        /\ Handled(c) /\ Unrouted(req[c]) /\ req[c].message_id = "req2"
        /\ out[c] # <<>>
        /\ system_status.marks_completed > 0

RECURSIVE Count(_, _)
Count(text, ch) ==
    IF text = <<>> THEN 0
    ELSE (IF Head(text) = ch THEN 1 ELSE 0) + Count(Tail(text), ch)
\* the line holds one line feed, its last character
OneNewlineAtEnd(line) == Count(line, "LF") = 1 /\ line[Len(line)] = "LF"
Decoded == codec.receiver # <<>>

\* C12 as claimed: the line decodes to the message that was encoded, client
\* identity included, and the line holds exactly one line feed, at its end
C12_RoundTrip ==
    /\ codec.line # <<>> => OneNewlineAtEnd(codec.line)
    /\ Decoded => codec.decoded = Got(codec.message, 0)

\* C12 as amended: the line decodes to the message that was encoded in id,
\* timestamp, type and payload, with the identity of the receiving connection
\* as its client identity; the line holds exactly one line feed, at its end
C12_RoundTripButClientId ==
    /\ codec.line # <<>> => OneNewlineAtEnd(codec.line)
    /\ Decoded =>
          codec.decoded = Got([codec.message EXCEPT !.client_id = Str(codec.receiver)], 0)
C12_Witness ==
    /\ Decoded
    /\ codec.message.message_id = Str(<<"LF", "QUOTE">>)
    /\ codec.message.payload = Dict(<< <<<<"BSL">>, Str(<<"LF">>)>> >>)
    /\ codec.message.client_id # Str(codec.receiver)
    /\ codec.decoded.ok

\* the monitor thread leaves its broadcast round in this step
RoundEnds == monitor.pc # "sleep" /\ monitor'.pc = "sleep"

\* the connections tracked from the beginning of the round to its end
TrackedThroughout == monitor.stable \cap clients'

\* C13: a broadcast round in which a write failed has, when it ends, sent the
\* message to every other connection that was tracked throughout the round,
\* has removed each failed connection from the map, and the monitor thread
\* has removed no other connection.
C13_FailedWriteIsolated ==
    [][/\ (RoundEnds /\ monitor.failed # {}) =>
              /\ TrackedThroughout \ monitor.failed \subseteq monitor.sent
              /\ monitor.failed \cap clients' = {}
       /\ (monitor.pc = "del" /\ monitor' # monitor) =>
              clients \ clients' \subseteq monitor.failed]_vars

\* C14: a broadcast round, whatever the accept loop, the readers and
\* stop_server do to the map meanwhile, ends without an exception and has
\* addressed every connection that was tracked throughout the round.
C14_RoundSurvivesMapChanges ==
    [][RoundEnds =>
          /\ monitor'.outcome = "done"
          /\ TrackedThroughout \subseteq monitor.sent \cup monitor.failed]_vars

\* C16: no call of _disconnect_client raises, from whichever threads it is
\* called for the same connection, and a connection no thread is still
\* disconnecting and whose reader has ended is untracked, its socket closed.
C16_DisconnectIdempotent ==
    /\ \A e \in errors : e.error # "KeyError"
    /\ \A c \in Clients :
          (pc[c] = "closed" /\ ~Held(c)) => (c \notin clients /\ c \notin socks)

\* reader c has been answered for the request it holds
Answered(c) == pc[c] = "idle" /\ req[c] # NoLine /\ out[c] # <<>>

\* C15: a marking_request is answered by exactly one handler in full, the
\* one that was last registered when the reader looked the handler up
\* (old or new for a registration in flight, the new one for every look-up
\* after register_handler returned): the response written is that handler's,
\* and the counter moves exactly when the response is the simulated
\* handler's marking_response.
C15_HandlerSwapAtomic ==
    /\ [](\A c \in Clients :
            Answered(c) =>
                out[c] = CallHandler(swap.expected[c], req[c], system_status, clients).resp)
    /\ [][\A c \in Clients :
            (pc[c] = "call" /\ pc'[c] = "idle") =>
                system_status'.marks_completed =
                    system_status.marks_completed
                    + (IF out'[c][1].message_type = "marking_response" THEN 1 ELSE 0)]_vars

\* a marking_request with a serial number was looked up under the simulated
\* handler, the hardware-backed one was registered before the call, and the
\* request was answered
C15_Witness ==
    \E c \in Clients :
        /\ Answered(c) /\ swap.inflight[c]
        /\ swap.expected[c] = SIM_MARKING
        /\ message_handlers["marking_request"] = PLC_MARKING
        /\ HasSerial(req[c].payload.product_data)

\* C17: connections alive at the same time have distinct client ids, and the
\* entry stored under a live connection's id is that connection's own.
C17_UniqueIdentity ==
    /\ \A a, b \in net.live : a.client_id = b.client_id => a = b
    /\ \A a \in net.live :
          a.client_id \in DOMAIN net.entries /\ net.entries[a.client_id] = a.address

\* the numbers of a sequence of bodies
Ids(bodies) == [i \in 1..Len(bodies) |-> bodies[i].id]
IsIncreasing(seq) == \A i, j \in 1..Len(seq) : i < j => seq[i] < seq[j]
IsPrefix(a, b) == Len(a) <= Len(b) /\ SubSeq(b, 1, Len(a)) = a
IsHeartbeat(body) == body.kind = "heartbeat"

\* C18: on each connection the lines are processed in the order they
\* arrived (line i before line j for i < j), and the responses written are,
\* in the same order, those of the processed requests that have one.
C18_OrderPreserved ==
    \A c \in Clients :
        /\ IsIncreasing(Ids(stream[c].processed))
        /\ IsPrefix(stream[c].written, Ids(SelectSeq(stream[c].processed, IsHeartbeat)))

\* a connection on which three lines were processed and two answered
C18_Witness ==
    \E c \in Clients :
        /\ Len(stream[c].processed) = MaxLines
        /\ Len(stream[c].written) >= 2

\* the request reader c holds is a marking_request with a serial number whose
\* marking succeeds: the simulated handler is bound, or the hardware-backed
\* one with the link up and the device showing product-present, system-ready
\* and marking-complete
MarkingSucceeds(c) ==
    /\ IsMarking(req[c])
    /\ req[c].payload.t = "dict" /\ HasSerial(req[c].payload.product_data)
    /\ \/ message_handlers["marking_request"] = SIM_MARKING
       \/ /\ message_handlers["marking_request"] = PLC_MARKING
          /\ is_connected
          /\ Shows({PRODUCT_PRESENT, SYSTEM_READY, MARKING_COMPLETE})

\* C19: when a reader finishes a marking_request, a request with a serial
\* number whose marking succeeds has been answered response_<id>,
\* marking_response, success, and the completed-marks counter has grown by
\* one, under the simulated and under the hardware-backed handler alike; any
\* other marking_request has left the counter as it was.
C19_SuccessCountedOnce ==
    [][\A c \in Clients :
          (StepOf(c) /\ Handled(c)' /\ IsMarking(req'[c])) =>
              IF MarkingSucceeds(c)'
              THEN /\ out'[c] # <<>>
                   /\ out'[c][1].message_id = "response_" \o req'[c].message_id
                   /\ out'[c][1].message_type = "marking_response"
                   /\ system_status'.marks_completed = system_status.marks_completed + 1
              ELSE system_status'.marks_completed = system_status.marks_completed]_vars

\* the last call was get_system_status on a connected link
Snapshot == link.call.op = "get_system_status" /\ link.call.connected

\* C21: get_system_status on a connected link returns a snapshot with an
\* entry for each registered discrete and analog input; the entry of a point
\* is what the read of that point gave, None when that read failed, whatever
\* the reads of the other points did.
C21_SnapshotComplete ==
    Snapshot =>
        /\ link.call.raised = ""
        /\ DOMAIN link.call.result.discrete_inputs = discrete_inputs
        /\ DOMAIN link.call.result.analog_inputs = analog_inputs
        /\ \A a \in discrete_inputs :
              /\ link.call.result.discrete_inputs[a] =
                     ReadDiscreteInput(TRUE, link.connection, a,
                                       link.call.answers.discrete[a]).value
              /\ link.call.answers.discrete[a].err =>
                     link.call.result.discrete_inputs[a] = None
        /\ \A a \in analog_inputs :
              /\ link.call.result.analog_inputs[a] =
                     ReadAnalogInput(TRUE, link.connection, a,
                                     link.call.answers.analog[a]).value
              /\ link.call.answers.analog[a].err =>
                     link.call.result.analog_inputs[a] = None

\* a snapshot taken while the read of one discrete input failed at recv and
\* that of another was answered
C21_Witness ==
    /\ Snapshot
    /\ \E a, b \in discrete_inputs :
          link.call.answers.discrete[a].err /\ ~link.call.answers.discrete[b].err

\* the last call was a read or a write of a point
PointCall ==
    link.call.op \in {"read_discrete_input", "write_discrete_output", "read_analog_input"}

\* C22: after disconnect() has returned, by name or through __exit__, the
\* link is not connected, whatever the transport; a second disconnect()
\* changes nothing; a read or write made after it and before a new connect()
\* fails and sends no request.
C22_DisconnectReleases ==
    /\ [](link.released => ~is_connected)
    /\ []((link.released /\ PointCall) =>
              (link.call.result \in {None, False} /\ ~link.call.sent))
    /\ [][(link.released /\ link'.released)
              => (is_connected' = is_connected
                  /\ link'.connection = link.connection)]_vars

\* what recv had to give in the last read or write was an error or too short
\* for the parser of that call
BadAnswer ==
    LET response == link.call.answers[1]
    IN \/ response.err
       \/ link.call.op = "read_discrete_input" /\ response.len < 10
       \/ link.call.op = "read_analog_input" /\ response.len < 11
       \/ link.call.op = "write_discrete_output" /\ response.len = 0

C25_ClientIdIsConnection ==
    (Decoded /\ codec.decoded.ok) => codec.decoded.value.client_id = Str(codec.receiver)

\* an envelope that named a client identity of its own was received on a
\* connection with another id and built into a message
C25_Witness ==
    /\ Decoded /\ codec.decoded.ok
    /\ codec.message.client_id = Str(<<"a">>)
    /\ codec.receiver = <<"n", "a">>

\* reader c takes a step that ends with the line it took handled and its
\* connection still tracked
Handles(c, message_type) ==
    /\ pc[c] = "idle"
    /\ StepOf(c)
    /\ Handled(c)'
    /\ Parses(req'[c])
    /\ req'[c].message_type = message_type

\* C26: a heartbeat with request id r is answered by exactly one message,
\* response_<r> of type heartbeat_response whose payload carries
\* server_time, and handling it changes neither the counters, nor the
\* connection map, nor the handler table
C26_HeartbeatAnsweredOnce ==
    [][\A c \in Clients :
          Handles(c, "heartbeat")
          => /\ Len(out'[c]) = 1
             /\ out'[c][1].message_id = "response_" \o req'[c].message_id
             /\ out'[c][1].message_type = "heartbeat_response"
             /\ "server_time" \in DOMAIN out'[c][1].payload
             /\ system_status' = system_status
             /\ clients' = clients
             /\ message_handlers' = message_handlers]_vars

\* a heartbeat was answered on a server that has counted a mark and tracks
\* another connection
C26_Witness ==
    \E c \in Clients :
        /\ clients \ {c} # {}
        /\ Handled(c)
        /\ Parses(req[c])
        /\ req[c].message_type = "heartbeat"
        /\ Len(out[c]) = 1
        /\ out[c][1].message_type = "heartbeat_response"
        /\ system_status.marks_completed > 0

\* the line is a system_command whose payload names this command
IsCommand(line, command) ==
    /\ Parses(line)
    /\ line.message_type = "system_command"
    /\ line.payload.t = "dict"
    /\ line.payload.command = command

\* C27: system_command reset_statistics sets the completed-marks and the
\* error counter to zero, leaves the connection map, the handler table and
\* the other readers as they were, and is answered by the success
\* command_response response_<request id>
C27_ResetStatistics ==
    [][\A c \in Clients :
          (Handles(c, "system_command") /\ IsCommand(req'[c], "reset_statistics"))
          => /\ system_status' = [marks_completed |-> 0, error_count |-> 0]
             /\ clients' = clients
             /\ message_handlers' = message_handlers
             /\ is_connected' = is_connected
             /\ \A d \in Clients \ {c} :
                    <<pc[d], req[d], out[d], run[d]>>' = <<pc[d], req[d], out[d], run[d]>>
             /\ out'[c] = <<Msg("response_" \o req'[c].message_id, "command_response",
                                [success |-> TRUE, command |-> "reset_statistics"])>>]_vars

\* reset_statistics was answered after a mark was counted: another reader
\* still holds its marking_response, and the counter is back at zero
C27_Witness ==
    \E c \in Clients :
        /\ Handled(c)
        /\ IsCommand(req[c], "reset_statistics")
        /\ Len(out[c]) = 1
        /\ out[c][1].message_type = "command_response"
        /\ system_status.marks_completed = 0
        /\ \E d \in clients \ {c} :
               /\ Handled(d)
               /\ Len(out[d]) = 1
               /\ out[d][1].message_type = "marking_response"

\* C28: after a shutdown command is handled the requester has been sent the
\* success command_response, and the stop_server the command started runs to
\* its orderly end: no exception leaves it before it has removed the
\* connections it listed and closed the listening socket
C28_ShutdownStopsServer ==
    /\ \A c \in Clients :
           req[c] = ShutdownLine
           => out[c] = <<Msg("response_" \o ShutdownLine.message_id, "command_response",
                             [success |-> TRUE, command |-> "shutdown"])>>
    /\ stopper.pc # "raised"

\* C29: a status_request handled while the fieldbus link is connected is
\* answered by a status_response whose payload gives client_count as the
\* number of tracked connections and connection as "connected"
C29_StatusReportsConnection ==
    [][\A c \in Clients :
          (Handles(c, "status_request") /\ is_connected)
          => /\ Len(out'[c]) = 1
             /\ out'[c][1].message_type = "status_response"
             /\ out'[c][1].payload.client_count = Cardinality(clients)
             /\ "connection" \in DOMAIN out'[c][1].payload
             /\ out'[c][1].payload.connection = "connected"]_vars

\* the text connection c's reader has been given so far: the characters
\* whose bytes recv has returned in full
TextReceived(c) ==
    Utf8Chars(SubSeq(wire[c].sent, 1, wire[c].received))

\* C30: framing does not depend on how the bytes were split into receives:
\* the reader lives on, the lines dispatched for a connection are those a
\* single receive of the same bytes gives (the newline-terminated lines
\* that are not blank), and after each receive the buffer holds no newline
\* and only characters of its own connection
C30_FramingIndependentOfChunking ==
    \A c \in Clients :
        /\ wire[c].raised = ""
        /\ wire[c].dispatched =
               FrameBuffer([NoWire EXCEPT !.buffer = TextReceived(c)]).dispatched
        /\ ~HasNewline(wire[c].buffer)
        /\ \A i \in 1..Len(wire[c].buffer) : wire[c].buffer[i].id = c

\* C31: read_discrete_input on a connected link returns a boolean, the low
\* bit of the data byte, for every response of at least 9 bytes that recv
\* gives
C31_ReadDiscreteBoolean ==
    (/\ link.call.op = "read_discrete_input"
     /\ link.call.connected
     /\ ~link.call.answers[1].err
     /\ link.call.answers[1].len >= 9)
    => /\ link.call.result \in {True, False}
       /\ (link.call.result = True) = (link.call.answers[1].b9 % 2 = 1)

\* every read of the snapshot failed at recv
AllReadsFail(answers) ==
    /\ \A a \in discrete_inputs : answers.discrete[a] = RecvError
    /\ \A a \in analog_inputs : answers.analog[a] = RecvError

\* C32: when the link to the controller is lost (the link was connected and
\* every fieldbus read now fails), the periodic health check calls connect()
C32_HealthCheckReconnects ==
    (/\ link.call.op = "_periodic_health_check"
     /\ link.call.connected
     /\ AllReadsFail(link.call.answers))
    => link.call.result = "connect called"

\* C33: a connect() that returned False leaves the link disconnected, also
\* when the link was connected before the call; one that returned True
\* leaves it connected; on the serial transport connect() returns True
C33_FailedConnectDisconnects ==
    link.call.op = "connect"
    => /\ (link.call.result = False) => ~is_connected
       /\ (link.call.result = True) => is_connected
       /\ (link.protocol = "modbus_rtu") => link.call.result = True

\* C34: two consecutive broadcast rounds are separated by the full wait of
\* 30 s, also when the earlier one ended with an error: no round begins
\* without the sleep since the round before
C34_RoundsAPeriodApart == ~monitor.unslept

\* C35: every call of execute_marking_sequence ends: a run that is under
\* way leads to its return with success or failure (or, the response not
\* deliverable, to the end of its reader)
C35_SequenceTerminates ==
    \A c \in Clients :
        (run[c].result = "running") ~> (Returned_(c) \/ pc[c] = "closed")

\* a run has returned on a connected link
C35_Witness ==
    \E c \in Clients : is_connected /\ pc[c] = "idle" /\ Returned_(c)

\* C36: no counter update is lost under concurrent marking requests: when
\* no request is under way, marks_completed is the number of marking
\* requests that succeeded since the counters were last reset
C36_NoLostUpdate ==
    (\A c \in Clients : pc[c] # "incr")
    => system_status.marks_completed = tally.succeeded

\* C37: once stop_server has returned the connection map is empty: no
\* connection accepted while stop_server ran is still tracked
C37_StoppedMapEmpty == stopper.pc = "done" => clients = {}

\* C38: a connection reader never ends with an unhandled error, also when
\* its entry was removed while it processed received data
C38_ReaderEndsNormally ==
    \A e \in errors : e.thread \notin Clients

=============================================================================
